---- MODULE Spec2Model ----
(***************************************************************************)
(* Model of the Q-S-R-E-D search pipeline of the repository:               *)
(*   SearchOrchestrator  (src/src/lib/search/orchestrator.ts)              *)
(*   NeuralReranker, getSearchConfig (src/src/lib/search/neuralReranker.ts)*)
(*   ContextualFusion    (src/unnamed/part_010)                            *)
(*   IntentDetector      (src/src/lib/search/ultraSearchOrchestrator.ts)   *)
(*   SearchStreamController (src/src/lib/utils/streaming.ts)               *)
(*                                                                         *)
(* Units.  Stage progress is kept in hundredths of a percent (10% = 1000)  *)
(* so that 10 + 0.85*p is an integer.  Sub-scores and weights of the       *)
(* reranker are kept in hundredths (0.45 = 45), so a final score is in     *)
(* ten-thousandths (1.0 = 10000).                                          *)
(***************************************************************************)
EXTENDS Integers, Sequences, FiniteSets, TLC

\* ------------------------------------------------------------------ bounds
MaxQueries == 2
MaxUrls == 1
MaxClock == 1
MaxRuns == 2
MaxDocs == 4
MaxFusionDocs == 2
MaxCalls == 2
MaxContextChunks == 3
MaxResults == 2
MaxStreamCalls == 5

\* ---------------------------------------------------------------- helpers
Min(a, b) == IF a <= b THEN a ELSE b
Max(a, b) == IF a >= b THEN a ELSE b
Range(s) == {s[i] : i \in 1..Len(s)}

RECURSIVE SumSeq(_)
SumSeq(s) == IF s = <<>> THEN 0 ELSE Head(s) + SumSeq(Tail(s))

\* All sequences over S of length at most n.
RECURSIVE SeqsUpTo(_, _)
SeqsUpTo(S, n) ==
  IF n = 0 THEN {<<>>}
  ELSE LET shorter == SeqsUpTo(S, n - 1)
       IN shorter \cup {Append(q, x) : q \in {r \in shorter : Len(r) = n - 1}, x \in S}

\* All subsequences (order kept) of a sequence.
RECURSIVE SubSeqs(_)
SubSeqs(s) ==
  IF s = <<>> THEN {<<>>}
  ELSE LET rest == SubSeqs(Tail(s))
       IN rest \cup {<<Head(s)>> \o r : r \in rest}


\* ------------------------------------------------- intents and configuration
\* A SearchIntent, reduced to the fields the pipeline, the configuration
\* resolver and the reranker read.  present = FALSE stands for `undefined`.
NoIntent ==
  [present |-> FALSE, strategy |-> "undefined", complexity |-> "undefined",
   temporal |-> "undefined", needsImages |-> FALSE, needsVideos |-> FALSE,
   mediaImportance |-> "low", visualLearning |-> FALSE, searchQueries |-> 0,
   searchDepth |-> "medium", parallelization |-> TRUE, relevanceThreshold |-> 0]

Intent(s, c, t, ni, nv, mi, vl, sq, sd, par, thr) ==
  [present |-> TRUE, strategy |-> s, complexity |-> c, temporal |-> t,
   needsImages |-> ni, needsVideos |-> nv, mediaImportance |-> mi,
   visualLearning |-> vl, searchQueries |-> sq, searchDepth |-> sd,
   parallelization |-> par, relevanceThreshold |-> thr]

Modes == {"quick", "pro", "ultra"}

getDefaultRelevanceThreshold(mode, intent) ==
  IF intent.present /\ intent.strategy = "quickAnswer" THEN 60
  ELSE IF intent.present /\ intent.strategy = "research" THEN 25
  ELSE IF intent.present /\ intent.strategy = "news" THEN 40
  ELSE IF intent.present /\ intent.strategy = "comparison" THEN 35
  ELSE IF mode = "quick" THEN 50
  ELSE IF mode = "pro" THEN 40
  ELSE 30

getFreshnessWeight(intent) ==
  IF intent.present /\ intent.temporal = "current" THEN 20
  ELSE IF intent.present /\ intent.temporal = "trending" THEN 15
  ELSE IF intent.present /\ intent.strategy = "news" THEN 25
  ELSE 5

getDiversityWeight(intent) ==
  IF intent.present /\ intent.strategy = "research" THEN 15
  ELSE IF intent.present /\ intent.strategy = "comparison" THEN 12
  ELSE IF intent.present /\ intent.complexity = "complex" THEN 10
  ELSE 5

getDefaultSearchQueries(mode) ==
  IF mode = "quick" THEN 3 ELSE IF mode = "pro" THEN 4 ELSE 5

\* A chunk size that depends on the depth alone.
quickChunkSize(depth, mode) ==
  IF depth = "shallow" THEN 420 ELSE IF depth = "deep" THEN 840 ELSE 600

\* Math.floor(baseSize * 0.7) and Math.floor(baseSize * 1.4)
getChunkSize(depth, mode) ==
  LET baseSize == IF mode = "quick" THEN 600 ELSE IF mode = "pro" THEN 800 ELSE 1000
  IN IF depth = "shallow" THEN (baseSize * 7) \div 10
     ELSE IF depth = "deep" THEN (baseSize * 14) \div 10
     ELSE baseSize

getMaxChunks(depth, mode) ==
  LET baseChunks == IF mode = "quick" THEN 4 ELSE IF mode = "pro" THEN 6 ELSE 8
  IN IF depth = "shallow" THEN Max(baseChunks - 1, 2)
     ELSE IF depth = "deep" THEN baseChunks + 2
     ELSE baseChunks

\* The OrchestratorConfig of getSearchConfig(mode, intent); timeouts and the
\* streaming block are configuration for collaborators and are left out.
getSearchConfig(mode, intent) ==
  LET intentSearchQueries ==
        IF intent.present THEN intent.searchQueries ELSE getDefaultSearchQueries(mode)
      intentSearchDepth == IF intent.present THEN intent.searchDepth ELSE "medium"
  IN [mode |-> mode,
      maxSources |-> IF mode = "quick" THEN 200 ELSE IF mode = "pro" THEN 300 ELSE 500,
      searchConfig |->
        [maxQueries |-> IF mode = "ultra" THEN Min(intentSearchQueries + 1, 8)
                        ELSE intentSearchQueries,
         parallelSearches |-> IF intent.present THEN intent.parallelization ELSE TRUE],
      rerankingConfig |->
        [minRelevanceThreshold |->
           IF intent.present THEN intent.relevanceThreshold
           ELSE getDefaultRelevanceThreshold(mode, intent),
         semanticWeight |-> 50,
         keywordWeight |-> 30,
         qualityWeight |-> 10,
         freshnessWeight |-> getFreshnessWeight(intent),
         diversityWeight |-> getDiversityWeight(intent),
         adaptiveScoring |-> TRUE],
      fusionConfig |->
        [maxChunkSize |-> getChunkSize(intentSearchDepth, mode),
         overlapSize |-> IF mode = "quick" THEN 80 ELSE IF mode = "pro" THEN 120 ELSE 200,
         maxChunks |-> getMaxChunks(intentSearchDepth, mode),
         skipEnhancement |-> (mode = "quick"),
         batchSize |-> IF mode = "pro" THEN 4 ELSE 3,
         enableParallelProcessing |-> (mode # "quick")]]

\* ------------------------------------------------------------ NeuralReranker
\* calculateKeywordRelevance of one document (hundredths), for query terms of
\* at most four letters (no partial-match bonus) that the document matches all
\* or not at all (termCoverage 1 or 0). titleMatches and contentMatches are the
\* whole-word matches summed over the terms, a term counting at most five
\* times in the content.
calculateKeywordRelevance(titleMatches, contentMatches) ==
  LET relevanceScore == 40 * titleMatches + 10 * contentMatches
      termCoverage == IF titleMatches + contentMatches > 0 THEN 100 ELSE 0
  IN Min((relevanceScore * (50 + termCoverage)) \div 100, 100)

\* A candidate document as the reranker sees it: the sub-scores the private
\* calculate* methods derive from its text (hundredths), the matches of the
\* query terms its keyword score is computed from, and the domain of its url.
Doc(sem, title, content, qual, fresh, dom) ==
  [semantic |-> sem, titleMatches |-> title, contentMatches |-> content,
   keyword |-> calculateKeywordRelevance(title, content), quality |-> qual,
   freshness |-> fresh, domain |-> dom]

DocPool ==
  { Doc(100, 1, 5, 100, 100, "a"),
    Doc(0, 0, 0, 0, 30, "a"),
    Doc(50, 1, 0, 0, 30, "b"),
    Doc(50, 0, 5, 0, 30, "b") }

\* The features of the query text that calculateAdaptiveWeights reads.
QueryShapes ==
  [words : {1, 5, 8}, timeSensitive : BOOLEAN, technical : BOOLEAN]

calculateDiversityPenalties(docs) ==
  [i \in 1..Len(docs) |->
     LET domainCount == Cardinality({j \in 1..Len(docs) : docs[j].domain = docs[i].domain})
     IN IF domainCount > 3 THEN 10
        ELSE IF domainCount > 1 THEN 5
        ELSE 0]

calculateAdaptiveWeights(cfg, query) ==
  LET short == query.words <= 3
      long == query.words > 6
      semanticWeight == cfg.semanticWeight - (IF short THEN 5 ELSE 0) + (IF long THEN 10 ELSE 0)
      keywordWeight == cfg.keywordWeight + (IF short THEN 10 ELSE 0) - (IF long THEN 5 ELSE 0)
      qualityWeight == cfg.qualityWeight - (IF query.timeSensitive THEN 5 ELSE 0)
                         + (IF query.technical THEN 10 ELSE 0)
      freshnessWeight == cfg.freshnessWeight + (IF query.timeSensitive THEN 10 ELSE 0)
      diversityWeight == cfg.diversityWeight - (IF query.technical THEN 2 ELSE 0)
  IN [cfg EXCEPT !.semanticWeight = Max(10, semanticWeight),
                 !.keywordWeight = Max(10, keywordWeight),
                 !.qualityWeight = Max(0, qualityWeight),
                 !.freshnessWeight = Max(0, freshnessWeight),
                 !.diversityWeight = Max(0, diversityWeight)]

\* The final score of one candidate (ten-thousandths), floored at 0.
finalScore(doc, penalty, w) ==
  Max(0, doc.semantic * w.semanticWeight + doc.keyword * w.keywordWeight
         + doc.quality * w.qualityWeight + doc.freshness * w.freshnessWeight
         - penalty * w.diversityWeight)

\* A reranker that leaves the candidates in input order.
inputOrder(s) == s

\* relevanceScores.sort((a, b) => b.score - a.score): stable, descending.
RECURSIVE insertByScore(_, _)
insertByScore(sorted, x) ==
  IF sorted = <<>> THEN <<x>>
  ELSE IF Head(sorted).score >= x.score
       THEN <<Head(sorted)>> \o insertByScore(Tail(sorted), x)
       ELSE <<x>> \o sorted

RECURSIVE sortByScore(_)
sortByScore(s) ==
  IF s = <<>> THEN <<>>
  ELSE insertByScore(sortByScore(SubSeq(s, 1, Len(s) - 1)), s[Len(s)])

\* A filter on the configured threshold alone.
configuredThresholdOnly(score, total, n, cfg) ==
  score >= cfg.minRelevanceThreshold * 100

\* doc.score >= Math.min(minRelevanceThreshold, avgScore * 0.5), with
\* avgScore = total / n, written without division.
passesDynamicThreshold(score, total, n, cfg) ==
  \/ score >= cfg.minRelevanceThreshold * 100
  \/ score * 2 * n >= total

RECURSIVE keepRelevant(_, _, _, _)
keepRelevant(s, total, n, cfg) ==
  IF s = <<>> THEN <<>>
  ELSE IF passesDynamicThreshold(Head(s).score, total, n, cfg)
       THEN <<Head(s)>> \o keepRelevant(Tail(s), total, n, cfg)
       ELSE keepRelevant(Tail(s), total, n, cfg)

\* NeuralReranker.rerankDocuments after the embeddings have been computed.
rerankDocuments(cfg, query, docs) ==
  IF Len(docs) = 0 THEN <<>>
  ELSE
    LET diversityPenalties == calculateDiversityPenalties(docs)
        adaptiveWeights == IF cfg.adaptiveScoring
                           THEN calculateAdaptiveWeights(cfg, query) ELSE cfg
        relevanceScores ==
          [i \in 1..Len(docs) |->
             [index |-> i,
              score |-> finalScore(docs[i], diversityPenalties[i], adaptiveWeights)]]
        sorted == sortByScore(relevanceScores)
        total == SumSeq([i \in 1..Len(docs) |-> relevanceScores[i].score])
        relevantDocuments == keepRelevant(sorted, total, Len(docs), cfg)
    IN [r \in 1..Len(relevantDocuments) |->
          [doc |-> docs[relevantDocuments[r].index],
           relevanceScore |-> relevantDocuments[r].score,
           originalRank |-> relevantDocuments[r].index]]

\* embeddings.embedQuery calls one rerankDocuments call issues.
embedQueryCalls(docs) == IF Len(docs) = 0 THEN 0 ELSE 1 + Len(docs)

StageNames == <<"Q", "S", "R", "E", "D">>
Stages == Range(StageNames)
NoTime == -1

VARIABLES
  pc,               \* position of the one executeSearchInternal call
  runs,             \* executeSearch calls made on this orchestrator so far
  now,              \* Date.now()
  config,           \* this.config (the fields the pipeline reads)
  streamController, \* "open" | "closed": the stream of this.streamController
  progressCallback, \* "none" | "quiet" | "throwing" (may throw on any invocation)
  pipelineStages,   \* this.pipelineStages
  progressEvents,   \* kinds of SearchProgress handed to the callback in this call
  streamEvents,     \* kinds of SearchStreamData enqueued in this call
  searchIntent,     \* the intent Stage Q resolved
  expandedQueries,  \* the queries Stage Q resolved (0 = the original query)
  searchCalls,      \* per query index: the search-backend call and its results
  docsBranch,       \* retrieveDocuments promise: "none"|"searching"|"fetching"|"resolved"
  imagesBranch,     \* retrieveImages promise: "none" | "inflight" | "resolved"
  videosBranch,     \* retrieveVideos promise: "none" | "inflight" | "resolved"
  allUrls,          \* retrieveDocuments' allUrls
  documents,        \* documents returned by retrieveDocuments
  images,           \* number of images retrieved
  videos,           \* number of videos retrieved
  rankedDocuments,  \* Stage R's result
  fusion,           \* position inside ContextualFusion.createContextChunks
  contextChunks,    \* number of context chunks Stage E produced
  chunkCache,       \* ContextualFusion.chunkCache: cache key -> chunk count
  embedCalls,       \* embeddings.embedQuery calls issued by Stage R in this call
  llmCalls,         \* chat-model calls issued by Stage D in this call
  message,          \* kind of the answer text Stage D produced
  fallbackContext,  \* length class of the excerpt the answer fallback read
  result,           \* the SearchResult of the call, or NoResult
  startTime,        \* executeSearchInternal's const startTime
  rrPhase,          \* a direct NeuralReranker.rerankDocuments call: its position
  rrConfig,         \* the RerankingConfig of that reranker
  rrQuery,          \* the query of the call
  rrDocs,           \* the documents of the call
  rrOut,            \* the RerankedDocument list the call resolved to
  rrEmbedCalls,     \* embeddings.embedQuery calls the call issued
  cfConfig,         \* a ContextualFusion instance used directly: its FusionConfig
  cfPhase,          \* its createContextChunks call: "idle"|"enhancing"|"returned"|"threw"
  cfCalls,          \* createContextChunks calls made on the instance so far
  cfQuery,          \* the query of the current call
  cfDocs,           \* the documents of the current call
  cfChunks,         \* finalChunks: the chunks handed to the enhancement
  cfBatches,        \* the batches of enhanceChunksWithContextBatched and their calls
  cfEnhanced,       \* enhancedChunks collected so far
  cfOut,            \* the ContextChunk list the call resolved to
  cfCache,          \* this.chunkCache: cache key -> chunk list
  cfLog,            \* the calls that returned, in order, with how they were served
  cfConsumed,       \* whether Stage D has sorted the array the call returned
  idQuery,          \* an IntentDetector used directly: the query of its detectIntent call
  idLlm,            \* whether the detector was constructed with a chat model
  idPhase,          \* the call: "idle" | "invoking" | "returned" | "threw"
  idInvocations,    \* llm.invoke calls the detector made
  idResponse,       \* what llm.invoke settled with
  idOut,            \* the SearchIntent the call resolved to
  idQueries,        \* the queries Stage Q generates from that intent (0 = the original)
  paConfig,         \* per mode: the config of the orchestrator its search class holds
  paIntent,         \* per mode: the intent that config was resolved from
  paMode,           \* the search class of the current planAndExecute call
  paQuery,          \* the message of the call
  paPhase,          \* "idle" | "detecting" | "stageQ" | "returned"
  paCalls,          \* planAndExecute calls made so far
  paDetections,     \* detectIntent calls made on behalf of the current call
  paStageQ,         \* the searchIntent Stage Q returns to Stages S and D
  paResult,         \* the SearchResult of the call
  ovArrays,         \* one shared orchestrator: the PipelineStage arrays allocated
                    \* (0 by the constructor, c by call c), stage -> status
  ovThis,           \* its this.pipelineStages: the array the field refers to
  ovPos,            \* per overlapping executeSearch call: transitions made
  ovResult,         \* per call: the array its SearchResult.pipelineStages refers to
  dvChunks,         \* the contextChunks handed to generateUnifiedAnswerOptimized
  dvPhase,          \* "idle" | "selected"
  dvSelected,       \* its selectedChunks
  rdParallel,       \* a retrieveDocuments call: config.searchConfig.parallelSearches
  rdCalls,          \* per valid query: its searxng.search call, the results it
                    \* returned and how many calls had settled before it
  rdPhase,          \* "searching" | "collected"
  rdUrls,           \* allUrls
  rdMetadata,       \* urlMetadata: url -> the result (query, position) stored
  scClosed,         \* a SearchStreamController used directly: this.closed
  scController,     \* whether this.controller is set (FALSE = null)
  scStream,         \* its ReadableStream: "readable" | "closed" | "errored"
  scQueue,          \* the types of the SearchStreamData enqueued, in order
  scCalls,          \* the calls made on the controller and its stream so far
  scThrew,          \* whether one of those calls threw
  ccMode,           \* one search class whose planAndExecute calls overlap: its mode
  ccField,          \* its this.orchestrator: who built it, its config and stream
  ccCalls           \* per call: its position, the intent it detected and the
                    \* orchestrator its executeSearch runs on

pipeVars == <<pc, runs, now, config, streamController, progressCallback,
              pipelineStages, progressEvents, streamEvents, searchIntent,
              expandedQueries, searchCalls, docsBranch, imagesBranch,
              videosBranch, allUrls, documents, images, videos, rankedDocuments,
              fusion, contextChunks, chunkCache, embedCalls, llmCalls, message, fallbackContext,
              result, startTime>>

rrVars == <<rrPhase, rrConfig, rrQuery, rrDocs, rrOut, rrEmbedCalls>>

cfVars == <<cfConfig, cfPhase, cfCalls, cfQuery, cfDocs, cfChunks, cfBatches,
            cfEnhanced, cfOut, cfCache, cfLog, cfConsumed>>

idVars == <<idQuery, idLlm, idPhase, idInvocations, idResponse, idOut, idQueries>>

paVars == <<paConfig, paIntent, paMode, paQuery, paPhase, paCalls, paDetections,
            paStageQ, paResult>>

ovVars == <<ovArrays, ovThis, ovPos, ovResult>>

dvVars == <<dvChunks, dvPhase, dvSelected>>

rdVars == <<rdParallel, rdCalls, rdPhase, rdUrls, rdMetadata>>

scVars == <<scClosed, scController, scStream, scQueue, scCalls, scThrew>>

ccVars == <<ccMode, ccField, ccCalls>>

vars == <<pipeVars, rrVars, cfVars, idVars, paVars, ovVars, dvVars, rdVars, scVars,
          ccVars>>

\* What the actions of one component leave alone: the other components.
outsidePipeline == <<rrVars, cfVars, idVars, paVars, ovVars, dvVars, rdVars, scVars, ccVars>>
outsideRerank == <<pipeVars, cfVars, idVars, paVars, ovVars, dvVars, rdVars, scVars, ccVars>>
outsideFusion == <<pipeVars, rrVars, idVars, paVars, ovVars, dvVars, rdVars, scVars, ccVars>>
outsideIntent == <<pipeVars, rrVars, cfVars, paVars, ovVars, dvVars, rdVars, scVars, ccVars>>
outsidePlan == <<pipeVars, rrVars, cfVars, idVars, ovVars, dvVars, rdVars, scVars, ccVars>>
outsideOverlap == <<pipeVars, rrVars, cfVars, idVars, paVars, dvVars, rdVars, scVars, ccVars>>
outsideDelivery == <<pipeVars, rrVars, cfVars, idVars, paVars, ovVars, rdVars, scVars, ccVars>>
outsideRetrieve == <<pipeVars, rrVars, cfVars, idVars, paVars, ovVars, dvVars, scVars, ccVars>>
outsideStream == <<pipeVars, rrVars, cfVars, idVars, paVars, ovVars, dvVars, rdVars, ccVars>>
outsideConcurrent == <<pipeVars, rrVars, cfVars, idVars, paVars, ovVars, dvVars, rdVars, scVars>>

\* --------------------------------------------------- SearchOrchestrator state
initializePipelineStages ==
  [st \in Stages |-> [status |-> "pending", progress |-> 0, startTime |-> NoTime]]

\* The intents detectIntent hands to Stage Q in the model: with or without
\* media, asking for MaxQueries queries (Stage Q's fallback gives the
\* single-query case).
DetectedIntents ==
  { Intent("research", "simple", "timeless", media, media,
           IF media THEN "medium" ELSE "low", FALSE, MaxQueries, "medium", TRUE, 40) :
      media \in BOOLEAN }

\* The configurations the orchestrators of the model are built with: quick
\* mode with its defaults, and ultra mode resolved from an intent that asks
\* for sequential search.
Configs ==
  { getSearchConfig("quick", NoIntent),
    getSearchConfig("ultra", Intent("research", "simple", "timeless", FALSE, FALSE,
                                    "low", FALSE, 2, "medium", FALSE, 40)) }

\* A Stage Q that falls back to a research intent.
researchFallback ==
  Intent("research", "moderate", "current", TRUE, FALSE, "medium", FALSE, 3,
         "medium", TRUE, 40)

\* Stage Q's fallbackIntent.
fallbackIntent ==
  Intent("quickAnswer", "simple", "timeless", TRUE, FALSE, "medium", FALSE, 3,
         "medium", TRUE, 40)

\* The searchIntent of the error-shaped SearchResult.
errorIntent ==
  Intent("quickAnswer", "simple", "timeless", FALSE, FALSE, "low", FALSE, 1,
         "shallow", FALSE, 50)

\* generateQuickAnswerQueries .. generateCreativeQueries: the template list of
\* a strategy; 0 is the original query, k > 0 its k-th variant.
queryTemplates(strategy) ==
  IF strategy = "quickAnswer" THEN <<0, 1, 2>>
  ELSE IF strategy \in {"research", "comparison", "tutorial", "news", "reference", "creative"}
       THEN <<0, 1, 2, 3, 4>>
  ELSE <<0>>

\* A Stage Q that sends every template of the strategy.
everyTemplate(intent) == queryTemplates(intent.strategy)

\* generateIntentAwareQueries: the strategy's templates cut to maxQueries
\* (slice(0, maxQueries)), the original query alone for an unknown strategy.
generateIntentAwareQueries(intent) ==
  LET maxQueries == IF intent.searchQueries = 0 THEN 3 ELSE intent.searchQueries
      templates == queryTemplates(intent.strategy)
      end == IF maxQueries < 0 THEN Max(Len(templates) + maxQueries, 0)
             ELSE Min(maxQueries, Len(templates))
      queries == SubSeq(templates, 1, end)
  IN IF Len(queries) = 0 THEN <<0>> ELSE queries

NoResult == [returned |-> FALSE]

\* createContextChunks has not run in this call.
noFusion == [cache |-> "none", group |-> 0]

idleCall == [state |-> "idle", results |-> <<>>]

\* An updatePipelineStage that never records the end of a stage.
updateWithoutCompleting(stage, status, progress) ==
  [pipelineStages EXCEPT ![stage] =
     [status |-> IF status = "completed" THEN "running" ELSE status,
      progress |-> progress,
      startTime |-> IF status = "running" /\ @.status = "pending"
                    THEN now ELSE @.startTime]]

\* updatePipelineStage's assignments to the stage object.
updatePipelineStage(stage, status, progress) ==
  LET stageObj == pipelineStages[stage]
  IN [pipelineStages EXCEPT ![stage] =
        [status |-> status,
         progress |-> progress,
         startTime |-> IF status = "running" /\ stageObj.status = "pending"
                       THEN now ELSE stageObj.startTime]]

\* this.progressCallback(progress) inside emitProgress: records the kinds handed
\* to the callback.
emitProgress(kinds) ==
  progressEvents' = IF progressCallback = "none" THEN progressEvents
                    ELSE progressEvents \cup kinds

\* A stream controller that drops what it is handed.
streamDataDropped(kinds) == UNCHANGED streamEvents

\* SearchStreamController.streamData: enqueues unless the stream is closed.
streamData(kinds) ==
  streamEvents' = IF streamController = "open" THEN streamEvents \cup kinds
                  ELSE streamEvents

\* The code after a progress-callback invocation: either the callback
\* returns, the stream events that follow it are enqueued and control goes to
\* okPc, or the callback throws and control goes to the enclosing catch.
afterCallback(okPc, catchPc, streamKinds) ==
  \/ /\ pc' = okPc
     /\ streamData(streamKinds)
  \/ /\ progressCallback = "throwing"
     /\ pc' = catchPc
     /\ UNCHANGED streamEvents

\* One updatePipelineStage call: the assignments, emitPipelineStatus, then the
\* pipeline_progress (and stage_complete) stream events.
stageUpdate(stage, status, progress, okPc, catchPc) ==
  /\ pipelineStages' = updatePipelineStage(stage, status, progress)
  /\ emitProgress({"pipeline_status"})
  /\ afterCallback(okPc, catchPc, {"stage_complete", "pipeline_progress"})

callVars == <<searchIntent, expandedQueries, searchCalls, docsBranch, imagesBranch,
              videosBranch, allUrls, documents, images, videos, rankedDocuments,
              fusion, contextChunks, embedCalls, llmCalls, message, fallbackContext, result, startTime>>
instVars == <<runs, config, streamController, progressCallback, chunkCache>>

PipelineInit ==
  /\ pc = "idle"
  /\ runs = 0
  /\ now = 0
  /\ config \in Configs
  /\ streamController = "open"
  /\ progressCallback = "none"
  /\ pipelineStages = initializePipelineStages
  /\ progressEvents = {}
  /\ streamEvents = {}
  /\ searchIntent = NoIntent
  /\ expandedQueries = <<>>
  /\ searchCalls = <<>>
  /\ docsBranch = "none"
  /\ imagesBranch = "none"
  /\ videosBranch = "none"
  /\ allUrls = <<>>
  /\ documents = <<>>
  /\ images = 0
  /\ videos = 0
  /\ rankedDocuments = <<>>
  /\ fusion = noFusion
  /\ contextChunks = 0
  /\ chunkCache = {}
  /\ embedCalls = 0
  /\ llmCalls = 0
  /\ message = "none"
  /\ fallbackContext = "unread"
  /\ result = NoResult
  /\ startTime = 0

\* executeSearch up to the first stage: stores the callback, resets the stages
\* and emits the pipeline status.
executeSearch ==
  /\ pc \in {"idle", "done", "rejected"}
  /\ runs < MaxRuns
  /\ runs' = runs + 1
  /\ progressCallback' \in {"none", "quiet", "throwing"}
  /\ pipelineStages' = initializePipelineStages
  /\ progressEvents' = IF progressCallback' = "none" THEN {} ELSE {"pipeline_status"}
  /\ \/ /\ pc' = "Q_run10"
        /\ streamEvents' = IF streamController = "open" THEN {"stage_complete"} ELSE {}
     \/ /\ progressCallback' = "throwing"
        /\ pc' = "catch"
        /\ streamEvents' = {}
  /\ searchIntent' = NoIntent
  /\ expandedQueries' = <<>>
  /\ searchCalls' = <<>>
  /\ docsBranch' = "none"
  /\ imagesBranch' = "none"
  /\ videosBranch' = "none"
  /\ allUrls' = <<>>
  /\ documents' = <<>>
  /\ images' = 0
  /\ videos' = 0
  /\ rankedDocuments' = <<>>
  /\ fusion' = noFusion
  /\ contextChunks' = 0
  /\ embedCalls' = 0
  /\ llmCalls' = 0
  /\ message' = "none"
  /\ fallbackContext' = "unread"
  /\ result' = NoResult
  /\ startTime' = now
  /\ UNCHANGED <<now, config, streamController, chunkCache, outsidePipeline>>

\* ---- Stage Q
stageQ_run10 ==
  /\ pc = "Q_run10"
  /\ stageUpdate("Q", "running", 1000, "Q_emit", "catch")
  /\ UNCHANGED <<now, callVars, instVars, outsidePipeline>>

stageQ_emit ==
  /\ pc = "Q_emit"
  /\ emitProgress({"stage_update"})
  /\ afterCallback("Q_run30", "catch", {})
  /\ UNCHANGED <<now, pipelineStages, callVars, instVars, outsidePipeline>>

stageQ_run30 ==
  /\ pc = "Q_run30"
  /\ stageUpdate("Q", "running", 3000, "Q_detect", "catch")
  /\ UNCHANGED <<now, callVars, instVars, outsidePipeline>>

\* await this.intentDetector.detectIntent(query): an intent, or an exception
\* (getQuickIntent dereferences the query, so a null query throws).
stageQ_detectIntent ==
  /\ pc = "Q_detect"
  /\ \E d \in 0..1 :
       /\ now + d <= MaxClock
       /\ now' = now + d
  /\ \/ \E intent \in DetectedIntents :
          /\ searchIntent' = intent
          /\ pc' = "Q_emitIntent"
     \/ /\ pc' = "Q_catch"
        /\ UNCHANGED searchIntent
  /\ UNCHANGED <<pipelineStages, progressEvents, streamEvents, expandedQueries,
                 searchCalls, docsBranch, imagesBranch, videosBranch, allUrls,
                 documents, images, videos, rankedDocuments, fusion,
                 contextChunks, embedCalls, llmCalls, message, fallbackContext, result, startTime, instVars, outsidePipeline>>

stageQ_emitIntent ==
  /\ pc = "Q_emitIntent"
  /\ emitProgress({"searchIntent"})
  /\ afterCallback("Q_run70", "Q_catch", {})
  /\ UNCHANGED <<now, pipelineStages, callVars, instVars, outsidePipeline>>

stageQ_run70 ==
  /\ pc = "Q_run70"
  /\ stageUpdate("Q", "running", 7000, "Q_complete", "Q_catch")
  /\ UNCHANGED <<now, callVars, instVars, outsidePipeline>>

\* generateIntentAwareQueries, then updatePipelineStage('Q', 'completed', 100).
stageQ_complete ==
  /\ pc = "Q_complete"
  /\ stageUpdate("Q", "completed", 10000, "S_run10", "Q_catch")
  /\ IF pc' = "S_run10"
     THEN expandedQueries' = generateIntentAwareQueries(searchIntent)
     ELSE UNCHANGED expandedQueries
  /\ UNCHANGED <<now, searchIntent, searchCalls, docsBranch, imagesBranch,
                 videosBranch, allUrls, documents, images, videos,
                 rankedDocuments, fusion, contextChunks, embedCalls, llmCalls,
                 message, fallbackContext, result, startTime, instVars, outsidePipeline>>

\* Stage Q's catch: marks Q error, then returns the fallback intent and the
\* original query alone; the pipeline goes on with Stage S.
stageQ_catch ==
  /\ pc = "Q_catch"
  /\ stageUpdate("Q", "error", 0, "S_run10", "catch")
  /\ IF pc' = "S_run10"
     THEN /\ searchIntent' = fallbackIntent
          /\ expandedQueries' = <<0>>
     ELSE UNCHANGED <<searchIntent, expandedQueries>>
  /\ UNCHANGED <<now, searchCalls, docsBranch, imagesBranch, videosBranch,
                 allUrls, documents, images, videos, rankedDocuments, fusion,
                 contextChunks, embedCalls, llmCalls, message, fallbackContext, result, startTime, instVars, outsidePipeline>>

\* ---- executeSearchInternal's catch
runningStages == {st \in Stages : pipelineStages[st].status = "running"}

errorResult ==
  [returned |-> TRUE, success |-> FALSE, message |-> "Error: ", sources |-> <<>>,
   images |-> 0, videos |-> 0, searchIntent |-> errorIntent,
   executionTime |-> now]

\* executeSearchInternal's catch: marks the running stage error, emits the
\* pipeline status and returns the error-shaped result.  Both steps invoke the
\* progress callback outside any try block: if it throws again the promise of
\* executeSearch rejects.
executeSearchInternal_catch ==
  /\ pc = "catch"
  /\ pipelineStages' =
       IF runningStages # {}
       THEN LET currentStage ==
                  StageNames[CHOOSE i \in 1..5 :
                               /\ StageNames[i] \in runningStages
                               /\ \A j \in 1..(i - 1) : StageNames[j] \notin runningStages]
            IN updatePipelineStage(currentStage, "error", 0)
       ELSE pipelineStages
  /\ emitProgress({"pipeline_status"})
  /\ \/ /\ pc' = "done"
        /\ result' = errorResult
        /\ streamData(IF runningStages # {}
                      THEN {"stage_complete", "pipeline_progress"} ELSE {})
     \/ /\ progressCallback = "throwing"
        /\ pc' = "rejected"
        /\ UNCHANGED result
        /\ \/ UNCHANGED streamEvents
           \/ /\ runningStages # {}
              /\ streamData({"stage_complete", "pipeline_progress"})
  /\ UNCHANGED <<now, startTime, searchIntent, expandedQueries, searchCalls, docsBranch,
                 imagesBranch, videosBranch, allUrls, documents, images, videos,
                 rankedDocuments, fusion, contextChunks, embedCalls, llmCalls,
                 message, fallbackContext, instVars, outsidePipeline>>

\* ---- Stage S
stageS_run10 ==
  /\ pc = "S_run10"
  /\ stageUpdate("S", "running", 1000, "S_emit", "catch")
  /\ UNCHANGED <<now, callVars, instVars, outsidePipeline>>

stageS_emit ==
  /\ pc = "S_emit"
  /\ emitProgress({"stage_update"})
  /\ afterCallback("S_run20", "catch", {})
  /\ UNCHANGED <<now, pipelineStages, callVars, instVars, outsidePipeline>>

\* updatePipelineStage('S', 'running', 20), then the call of retrieveDocuments,
\* which runs up to its first await: every per-query search is issued when
\* parallelSearches is set, the first one otherwise.
stageS_startDocuments ==
  /\ pc = "S_run20"
  /\ stageUpdate("S", "running", 2000, "S_images", "catch")
  /\ IF pc' = "S_images"
     THEN /\ docsBranch' = "searching"
          /\ searchCalls' =
               [i \in 1..Len(expandedQueries) |->
                  IF config.searchConfig.parallelSearches \/ i = 1
                  THEN [state |-> "inflight", results |-> <<>>]
                  ELSE idleCall]
     ELSE UNCHANGED <<docsBranch, searchCalls>>
  /\ UNCHANGED <<now, searchIntent, expandedQueries, imagesBranch, videosBranch,
                 allUrls, documents, images, videos, rankedDocuments, fusion,
                 contextChunks, embedCalls, llmCalls, message, fallbackContext, result, startTime, instVars, outsidePipeline>>

imagesWanted == searchIntent.needsImages \/ searchIntent.mediaImportance # "low"
videosWanted == searchIntent.needsVideos \/ searchIntent.visualLearning

stageS_startImages ==
  /\ pc = "S_images"
  /\ IF imagesWanted
     THEN /\ stageUpdate("S", "running", 3500, "S_videos", "catch")
          /\ IF pc' = "S_videos" THEN imagesBranch' = "inflight"
             ELSE UNCHANGED imagesBranch
     ELSE /\ pc' = "S_videos"
          /\ imagesBranch' = "resolved"
          /\ UNCHANGED <<pipelineStages, progressEvents, streamEvents>>
  /\ UNCHANGED <<now, searchIntent, expandedQueries, searchCalls, docsBranch,
                 videosBranch, allUrls, documents, images, videos,
                 rankedDocuments, fusion, contextChunks, embedCalls, llmCalls,
                 message, fallbackContext, result, startTime, instVars, outsidePipeline>>

stageS_startVideos ==
  /\ pc = "S_videos"
  /\ IF videosWanted
     THEN /\ stageUpdate("S", "running", 5000, "S_run70", "catch")
          /\ IF pc' = "S_run70" THEN videosBranch' = "inflight"
             ELSE UNCHANGED videosBranch
     ELSE /\ pc' = "S_run70"
          /\ videosBranch' = "resolved"
          /\ UNCHANGED <<pipelineStages, progressEvents, streamEvents>>
  /\ UNCHANGED <<now, searchIntent, expandedQueries, searchCalls, docsBranch,
                 imagesBranch, allUrls, documents, images, videos,
                 rankedDocuments, fusion, contextChunks, embedCalls, llmCalls,
                 message, fallbackContext, result, startTime, instVars, outsidePipeline>>

stageS_run70 ==
  /\ pc = "S_run70"
  /\ stageUpdate("S", "running", 7000, "S_join", "catch")
  /\ UNCHANGED <<now, callVars, instVars, outsidePipeline>>

\* The branches of Stage S that have not settled.
branchesInFlight ==
  {<<"search", i>> : i \in {j \in 1..Len(searchCalls) : searchCalls[j].state = "inflight"}}
    \cup (IF docsBranch \in {"searching", "fetching"} THEN {<<"documents", 0>>} ELSE {})
    \cup (IF imagesBranch = "inflight" THEN {<<"images", 0>>} ELSE {})
    \cup (IF videosBranch = "inflight" THEN {<<"videos", 0>>} ELSE {})

\* await Promise.all(searchPromises) resumes once every promise is resolved;
\* then updatePipelineStage('S', 'running', 90).  The url list was a local of
\* retrieveDocuments and is gone by now.
stageS_join ==
  /\ pc = "S_join"
  /\ docsBranch = "resolved"
  /\ imagesBranch = "resolved"
  /\ videosBranch = "resolved"
  /\ \E d \in 0..1 :
       /\ now + d <= MaxClock
       /\ now' = now + d
  /\ stageUpdate("S", "running", 9000, "S_pubImages", "catch")
  /\ allUrls' = <<>>
  /\ UNCHANGED <<searchIntent, expandedQueries, searchCalls, docsBranch, imagesBranch,
                 videosBranch, documents, images, videos, rankedDocuments,
                 fusion, contextChunks, embedCalls, llmCalls, message, fallbackContext, result, startTime,
                 instVars, outsidePipeline>>

stageS_publishImages ==
  /\ pc = "S_pubImages"
  /\ IF images > 0
     THEN /\ emitProgress({"images"})
          /\ afterCallback("S_pubVideos", "catch", {"images_ready"})
     ELSE /\ pc' = "S_pubVideos"
          /\ UNCHANGED <<progressEvents, streamEvents>>
  /\ UNCHANGED <<now, pipelineStages, callVars, instVars, outsidePipeline>>

sourcesReadyOfS == IF Len(documents) > 0 THEN {"sources_ready"} ELSE {}

stageS_publishVideos ==
  /\ pc = "S_pubVideos"
  /\ IF videos > 0
     THEN /\ emitProgress({"videos"})
          /\ afterCallback("S_complete", "catch", {"videos_ready"} \cup sourcesReadyOfS)
     ELSE /\ pc' = "S_complete"
          /\ streamData(sourcesReadyOfS)
          /\ UNCHANGED progressEvents
  /\ UNCHANGED <<now, pipelineStages, callVars, instVars, outsidePipeline>>

stageS_complete ==
  /\ pc = "S_complete"
  /\ stageUpdate("S", "completed", 10000, "R_run10", "catch")
  /\ UNCHANGED <<now, callVars, instVars, outsidePipeline>>

\* ---- the branches of Stage S
\* A promise settles only while the pipeline is suspended: Stage S runs from
\* its first statement to Promise.all without an await, and a call that ended
\* in the catch leaves its branches to settle after it returned.
branchesMayResume == pc \in {"S_join", "done", "rejected"}

SearchResultLists == {<<>>} \cup {<<u>> : u \in 1..MaxUrls}

\* allUrls after the forEach over the per-query results, in query order.
RECURSIVE collectUrls(_, _)
collectUrls(calls, acc) ==
  IF calls = <<>> THEN acc
  ELSE LET docs == Head(calls).results
           fresh == IF Len(docs) = 1 /\ docs[1] \notin Range(acc) THEN docs ELSE <<>>
       IN collectUrls(Tail(calls), acc \o fresh)

\* One searxng.search call settles (its try/catch turns a failure into no
\* results).  A sequential retrieval then issues the next query's call. When
\* the last call has settled the URLs are collected: with none, the promise of
\* retrieveDocuments resolves to [], otherwise the document fetch is issued.
retrieveDocuments_searchSettles(i) ==
  /\ branchesMayResume
  /\ i \in 1..Len(searchCalls)
  /\ searchCalls[i].state = "inflight"
  /\ \E outcome \in {"failed", "ok"}, res \in SearchResultLists :
       /\ outcome = "failed" => res = <<>>
       /\ LET settled == [searchCalls EXCEPT ![i] = [state |-> outcome, results |-> res]]
              next == IF i < Len(searchCalls) /\ settled[i + 1].state = "idle"
                      THEN [settled EXCEPT ![i + 1] = [state |-> "inflight", results |-> <<>>]]
                      ELSE settled
              allSettled == \A j \in 1..Len(next) : next[j].state \in {"failed", "ok"}
              urls == collectUrls(next, <<>>)
          IN IF allSettled
             THEN /\ searchCalls' = [j \in 1..Len(next) |-> [next[j] EXCEPT !.results = <<>>]]
                  /\ allUrls' = urls
                  /\ docsBranch' = IF Len(urls) = 0 THEN "resolved" ELSE "fetching"
             ELSE /\ searchCalls' = next
                  /\ UNCHANGED <<allUrls, docsBranch>>
  /\ UNCHANGED <<pc, now, pipelineStages, progressEvents, streamEvents,
                 searchIntent, expandedQueries, imagesBranch, videosBranch,
                 documents, images, videos, rankedDocuments, fusion,
                 contextChunks, embedCalls, llmCalls, message, fallbackContext, result, startTime, instVars, outsidePipeline>>

\* getDocumentsFromLinks settles.  It resolves with the documents of the urls
\* it could fetch (a url whose request fails is skipped, so with none when
\* every request fails), of which those with more than 50 characters are
\* kept; when it rejects, the snippet documents are returned, or, if none has
\* more than 5 characters, minimal documents for the first 5 urls.
retrieveDocuments_fetchSettles ==
  /\ branchesMayResume
  /\ docsBranch = "fetching"
  /\ \E kept \in SubSeqs(allUrls) :
       \/ documents' = kept
       \/ documents' = IF kept = <<>> THEN SubSeq(allUrls, 1, Min(5, Len(allUrls)))
                       ELSE kept
  /\ docsBranch' = "resolved"
  /\ UNCHANGED <<pc, now, pipelineStages, progressEvents, streamEvents,
                 searchIntent, expandedQueries, searchCalls, imagesBranch,
                 videosBranch, allUrls, images, videos, rankedDocuments, fusion,
                 contextChunks, embedCalls, llmCalls, message, fallbackContext, result, startTime, instVars, outsidePipeline>>

\* handleImageSearch settles; a failure is caught and yields no images.
retrieveImages_settles ==
  /\ branchesMayResume
  /\ imagesBranch = "inflight"
  /\ images' \in 0..1
  /\ imagesBranch' = "resolved"
  /\ UNCHANGED <<pc, now, pipelineStages, progressEvents, streamEvents,
                 searchIntent, expandedQueries, searchCalls, docsBranch,
                 videosBranch, allUrls, documents, videos, rankedDocuments,
                 fusion, contextChunks, embedCalls, llmCalls, message, fallbackContext, result, startTime,
                 instVars, outsidePipeline>>

\* handleVideoSearch settles; a failure is caught and yields no videos.
retrieveVideos_settles ==
  /\ branchesMayResume
  /\ videosBranch = "inflight"
  /\ videos' \in 0..1
  /\ videosBranch' = "resolved"
  /\ UNCHANGED <<pc, now, pipelineStages, progressEvents, streamEvents,
                 searchIntent, expandedQueries, searchCalls, docsBranch,
                 imagesBranch, allUrls, documents, images, rankedDocuments,
                 fusion, contextChunks, embedCalls, llmCalls, message, fallbackContext, result, startTime,
                 instVars, outsidePipeline>>

\* ---- Stage R
stageR_run10 ==
  /\ pc = "R_run10"
  /\ stageUpdate("R", "running", 1000, "R_emit", "catch")
  /\ UNCHANGED <<now, callVars, instVars, outsidePipeline>>

stageR_emit ==
  /\ pc = "R_emit"
  /\ emitProgress({"stage_update"})
  /\ afterCallback(IF Len(documents) = 0 THEN "R_emptyComplete" ELSE "R_run50",
                   "catch", {})
  /\ UNCHANGED <<now, pipelineStages, callVars, instVars, outsidePipeline>>

\* documents.length === 0: Stage R completes without calling the reranker ...
stageR_emptyComplete ==
  /\ pc = "R_emptyComplete"
  /\ stageUpdate("R", "completed", 10000, "R_emptyPublish", "catch")
  /\ UNCHANGED <<now, callVars, instVars, outsidePipeline>>

\* ... and publishes an empty sources list to the callback and the stream.
stageR_emptyPublish ==
  /\ pc = "R_emptyPublish"
  /\ emitProgress({"sources_empty"})
  /\ afterCallback("E_run10", "catch", {"sources_ready"})
  /\ UNCHANGED <<now, pipelineStages, callVars, instVars, outsidePipeline>>

stageR_run50 ==
  /\ pc = "R_run50"
  /\ stageUpdate("R", "running", 5000, "R_rerank", "catch")
  /\ UNCHANGED <<now, callVars, instVars, outsidePipeline>>

\* await this.rerankDocuments(query, documents, embeddings): the reranker
\* scores the documents (their sub-scores are drawn from DocPool) or an
\* embeddings call throws, which nothing in Stage R catches.
stageR_rerank ==
  /\ pc = "R_rerank"
  /\ UNCHANGED now
  /\ embedCalls' = embedQueryCalls(documents)
  /\ \/ \E query \in QueryShapes, profile \in [1..Len(documents) -> DocPool] :
          LET ranked == rerankDocuments(config.rerankingConfig, query, profile)
          IN /\ rankedDocuments' =
                  [r \in 1..Len(ranked) |-> documents[ranked[r].originalRank]]
             /\ pc' = "R_complete"
     \/ /\ pc' = "catch"
        /\ UNCHANGED rankedDocuments
  /\ UNCHANGED <<pipelineStages, progressEvents, streamEvents, searchIntent,
                 expandedQueries, searchCalls, docsBranch, imagesBranch,
                 videosBranch, allUrls, documents, images, videos, fusion,
                 contextChunks, llmCalls, message, fallbackContext, result, startTime, instVars, outsidePipeline>>

stageR_complete ==
  /\ pc = "R_complete"
  /\ stageUpdate("R", "completed", 10000, "R_publish", "catch")
  /\ UNCHANGED <<now, callVars, instVars, outsidePipeline>>

stageR_publish ==
  /\ pc = "R_publish"
  /\ emitProgress({"sources"})
  /\ afterCallback("E_run10", "catch", {"sources_ready"})
  /\ UNCHANGED <<now, pipelineStages, callVars, instVars, outsidePipeline>>

\* ---- Stage E
stageE_run10 ==
  /\ pc = "E_run10"
  /\ stageUpdate("E", "running", 1000, "E_emit", "catch")
  /\ UNCHANGED <<now, callVars, instVars, outsidePipeline>>

stageE_emit ==
  /\ pc = "E_emit"
  /\ emitProgress({"stage_update"})
  /\ afterCallback(IF Len(rankedDocuments) = 0 THEN "E_complete" ELSE "E_run20",
                   "catch", {})
  /\ UNCHANGED <<now, pipelineStages, callVars, instVars, outsidePipeline>>

stageE_run20 ==
  /\ pc = "E_run20"
  /\ stageUpdate("E", "running", 2000, "F_cache", "catch")
  /\ UNCHANGED <<now, callVars, instVars, outsidePipeline>>

\* Stage E's progressCallback closure, called by ContextualFusion with a
\* percentage p (hundredths of a percent here): maps it to 10 + 0.85 p, updates
\* the stage and emits a stage_update.  An exception of the caller's callback
\* leaves createContextChunks and is caught by the orchestrator's wrapper.
mappedProgress(p) == 1000 + (p * 85) \div 100

reportProgress(p, okPc) ==
  /\ pipelineStages' = updatePipelineStage("E", "running", mappedProgress(p))
  /\ emitProgress({"pipeline_status", "stage_update"})
  /\ \/ /\ pc' = okPc
        /\ streamData({"stage_complete", "pipeline_progress"})
     \/ /\ progressCallback = "throwing"
        /\ pc' = "E_caught"
        /\ \/ UNCHANGED streamEvents
           \/ streamData({"stage_complete", "pipeline_progress"})

\* `${query}-${documents.length}-${JSON.stringify(this.config)}`: the query and
\* the configuration are the same for every call in the model.
cacheKey == Len(rankedDocuments)

cacheHas(key) == \E e \in chunkCache : e[1] = key
cacheGet(key) == (CHOOSE e \in chunkCache : e[1] = key)[2]
cacheSet(key, chunks) == {e \in chunkCache : e[1] # key} \cup {<<key, chunks>>}

\* The chunk counts createOverlappingChunksOptimized, deduplicateChunks and the
\* slice to maxChunks can leave.
ChunkCounts == {0, 1, config.fusionConfig.maxChunks}

\* createContextChunks up to its first progress report: the cached chunks
\* with reportProgress(100), or reportProgress(10).
fusion_checkCache ==
  /\ pc = "F_cache"
  /\ IF cacheHas(cacheKey)
     THEN /\ reportProgress(10000, "E_complete")
          /\ contextChunks' = cacheGet(cacheKey)
          /\ fusion' = [cache |-> "hit", group |-> 0]
     ELSE /\ reportProgress(1000, "F_20")
          /\ fusion' = [cache |-> "miss", group |-> 0]
          /\ UNCHANGED contextChunks
  /\ UNCHANGED <<now, searchIntent, expandedQueries, searchCalls, docsBranch,
                 imagesBranch, videosBranch, allUrls, documents, images, videos,
                 rankedDocuments, embedCalls, llmCalls, message, fallbackContext, result, startTime, instVars, outsidePipeline>>

fusion_progress20 ==
  /\ pc = "F_20"
  /\ reportProgress(2000, "F_40")
  /\ UNCHANGED <<now, callVars, instVars, outsidePipeline>>

fusion_progress40 ==
  /\ pc = "F_40"
  /\ reportProgress(4000, "F_60")
  /\ UNCHANGED <<now, callVars, instVars, outsidePipeline>>

\* createOverlappingChunksOptimized, then reportProgress(60).
fusion_progress60 ==
  /\ pc = "F_60"
  /\ reportProgress(6000, "F_70")
  /\ UNCHANGED <<now, callVars, instVars, outsidePipeline>>

\* deduplicateChunks, then reportProgress(70) and the slice to maxChunks.
fusion_progress70 ==
  /\ pc = "F_70"
  /\ reportProgress(7000, "F_80")
  /\ contextChunks' \in ChunkCounts
  /\ UNCHANGED <<now, searchIntent, expandedQueries, searchCalls, docsBranch,
                 imagesBranch, videosBranch, allUrls, documents, images, videos,
                 rankedDocuments, fusion, embedCalls, llmCalls, message, fallbackContext, result, startTime,
                 instVars, outsidePipeline>>

\* reportProgress(80), then the choice between skipping the enhancement and
\* enhanceChunksWithContextBatched (which returns at once for no chunks).
fusion_progress80 ==
  /\ pc = "F_80"
  /\ reportProgress(8000, IF config.fusionConfig.skipEnhancement THEN "F_skip"
                          ELSE IF contextChunks = 0 THEN "F_final"
                          ELSE "F_batch")
  /\ fusion' = [fusion EXCEPT !.group = 1]
  /\ UNCHANGED <<now, searchIntent, expandedQueries, searchCalls, docsBranch,
                 imagesBranch, videosBranch, allUrls, documents, images, videos,
                 rankedDocuments, contextChunks, embedCalls, llmCalls, message, fallbackContext,
                 result, startTime, instVars, outsidePipeline>>

fusion_skipEnhancement ==
  /\ pc = "F_skip"
  /\ reportProgress(10000, "F_final")
  /\ UNCHANGED <<now, callVars, instVars, outsidePipeline>>

CeilDiv(a, b) == (a + b - 1) \div b

\* The number of awaited batch groups of enhanceChunksWithContextBatched.
batchGroups(chunks) ==
  LET batches == CeilDiv(chunks, config.fusionConfig.batchSize)
  IN IF config.fusionConfig.enableParallelProcessing /\ batches > 1
     THEN CeilDiv(batches, 2)
     ELSE batches

\* One awaited group of batches (processSingleBatch catches a failed chat-model
\* call and keeps the chunks), then progress 80 + 20 (i + 1) / groups.
fusion_enhanceBatch ==
  /\ pc = "F_batch"
  /\ UNCHANGED now
  /\ LET groups == batchGroups(contextChunks)
     IN /\ reportProgress(8000 + (2000 * fusion.group) \div groups,
                          IF fusion.group < groups THEN "F_batch" ELSE "F_final")
        /\ fusion' = IF fusion.group < groups
                     THEN [fusion EXCEPT !.group = @ + 1] ELSE fusion
  /\ UNCHANGED <<searchIntent, expandedQueries, searchCalls, docsBranch,
                 imagesBranch, videosBranch, allUrls, documents, images, videos,
                 rankedDocuments, contextChunks, embedCalls, llmCalls, message, fallbackContext,
                 result, startTime, runs, config, streamController, progressCallback,
                 chunkCache, outsidePipeline>>

\* this.chunkCache.set(cacheKey, enhancedChunks), then reportProgress(100).
fusion_storeAndFinish ==
  /\ pc = "F_final"
  /\ chunkCache' = cacheSet(cacheKey, contextChunks)
  /\ reportProgress(10000, "E_complete")
  /\ UNCHANGED <<now, callVars, runs, config, streamController, progressCallback, outsidePipeline>>

\* The catch of the orchestrator's createContextChunks: no chunks.
createContextChunks_catch ==
  /\ pc = "E_caught"
  /\ pc' = "E_complete"
  /\ contextChunks' = 0
  /\ UNCHANGED <<now, pipelineStages, progressEvents, streamEvents, searchIntent,
                 expandedQueries, searchCalls, docsBranch, imagesBranch,
                 videosBranch, allUrls, documents, images, videos,
                 rankedDocuments, fusion, embedCalls, llmCalls, message, fallbackContext, result, startTime,
                 instVars, outsidePipeline>>

stageE_complete ==
  /\ pc = "E_complete"
  /\ stageUpdate("E", "completed", 10000, "D_run10", "catch")
  /\ UNCHANGED <<now, callVars, instVars, outsidePipeline>>

\* ---- Stage D
stageD_run10 ==
  /\ pc = "D_run10"
  /\ stageUpdate("D", "running", 1000, "D_emit", "catch")
  /\ UNCHANGED <<now, callVars, instVars, outsidePipeline>>

stageD_emit ==
  /\ pc = "D_emit"
  /\ emitProgress({"stage_update"})
  /\ afterCallback("D_run30", "catch", {})
  /\ UNCHANGED <<now, pipelineStages, callVars, instVars, outsidePipeline>>

stageD_run30 ==
  /\ pc = "D_run30"
  /\ stageUpdate("D", "running", 3000,
                 IF contextChunks > 0 THEN "D_run60" ELSE "D_media", "catch")
  /\ UNCHANGED <<now, callVars, instVars, outsidePipeline>>

\* A fallback that always apologises.
apologyOnly(contextLength) == "apology"

\* The catch of generateUnifiedAnswerOptimized: an excerpt of the context if
\* it is longer than 100 characters, an apology otherwise.
fallbackAnswer(contextLength) ==
  IF contextLength = "long" THEN "excerpt" ELSE "apology"

\* The catch reads the first up-to-3 selected chunks, whose joined length is
\* over 100 characters ("long") or not ("short").
answerFallback ==
  \E contextLength \in {"short", "long"} :
    /\ fallbackContext' = contextLength
    /\ message' = fallbackAnswer(contextLength)

\* generateUnifiedAnswerOptimized's try block: updatePipelineStage('D',
\* 'running', 60) ...
generateUnifiedAnswerOptimized_run60 ==
  /\ pc = "D_run60"
  /\ pipelineStages' = updatePipelineStage("D", "running", 6000)
  /\ emitProgress({"pipeline_status"})
  /\ \/ /\ pc' = "D_emit60"
        /\ streamData({"stage_complete", "pipeline_progress"})
        /\ UNCHANGED <<message, fallbackContext>>
     \/ /\ progressCallback = "throwing"
        /\ pc' = "D_run90"
        /\ answerFallback
        /\ UNCHANGED streamEvents
  /\ UNCHANGED <<now, searchIntent, expandedQueries, searchCalls, docsBranch,
                 imagesBranch, videosBranch, allUrls, documents, images, videos,
                 rankedDocuments, fusion, contextChunks, embedCalls, llmCalls,
                 result, startTime, instVars, outsidePipeline>>

\* ... the stage_update ...
generateUnifiedAnswerOptimized_emit ==
  /\ pc = "D_emit60"
  /\ emitProgress({"stage_update"})
  /\ \/ /\ pc' = "D_llm"
        /\ UNCHANGED <<message, fallbackContext>>
     \/ /\ progressCallback = "throwing"
        /\ pc' = "D_run90"
        /\ answerFallback
  /\ UNCHANGED <<now, pipelineStages, streamEvents, searchIntent, expandedQueries,
                 searchCalls, docsBranch, imagesBranch, videosBranch, allUrls,
                 documents, images, videos, rankedDocuments, fusion,
                 contextChunks, embedCalls, llmCalls, result, startTime, instVars, outsidePipeline>>

\* ... and await llm.invoke(prompt).
generateUnifiedAnswerOptimized_invoke ==
  /\ pc = "D_llm"
  /\ UNCHANGED now
  /\ llmCalls' = llmCalls + 1
  /\ \/ /\ message' = "llm"
        /\ UNCHANGED fallbackContext
     \/ answerFallback
  /\ pc' = "D_run90"
  /\ UNCHANGED <<pipelineStages, progressEvents, streamEvents, searchIntent,
                 expandedQueries, searchCalls, docsBranch, imagesBranch,
                 videosBranch, allUrls, documents, images, videos,
                 rankedDocuments, fusion, contextChunks, embedCalls, result, startTime,
                 instVars, outsidePipeline>>

\* A Stage D that claims a generated answer without any context.
answerWithoutContext(nImages, nVideos) == "llm"

\* The text generateMediaOnlyResponse builds: the no-results apology when there
\* is no media either, a description of the media otherwise.
mediaOnlyMessage(nImages, nVideos) ==
  IF nImages = 0 /\ nVideos = 0 THEN "noContent" ELSE "mediaOnly"

generateMediaOnlyResponse ==
  /\ pc = "D_media"
  /\ message' = mediaOnlyMessage(images, videos)
  /\ UNCHANGED fallbackContext
  /\ pc' = "D_run90"
  /\ UNCHANGED <<now, pipelineStages, progressEvents, streamEvents, searchIntent,
                 expandedQueries, searchCalls, docsBranch, imagesBranch,
                 videosBranch, allUrls, documents, images, videos,
                 rankedDocuments, fusion, contextChunks, embedCalls, llmCalls,
                 result, startTime, instVars, outsidePipeline>>

stageD_run90 ==
  /\ pc = "D_run90"
  /\ stageUpdate("D", "running", 9000, "D_emitResponse", "catch")
  /\ UNCHANGED <<now, callVars, instVars, outsidePipeline>>

stageD_emitResponse ==
  /\ pc = "D_emitResponse"
  /\ emitProgress({"response"})
  /\ afterCallback("D_complete", "catch", {"response_complete"})
  /\ UNCHANGED <<now, pipelineStages, callVars, instVars, outsidePipeline>>

stageD_complete ==
  /\ pc = "D_complete"
  /\ stageUpdate("D", "completed", 10000, "finish", "catch")
  /\ UNCHANGED <<now, callVars, instVars, outsidePipeline>>

\* The tail of executeSearchInternal's try block: the result, the 'complete'
\* progress event and streamController.complete, which closes the stream.
executeSearchInternal_return ==
  /\ pc = "finish"
  /\ emitProgress({"complete"})
  /\ \/ /\ pc' = "done"
        /\ \E keptImages \in 0..images, keptVideos \in 0..videos :
             result' = [returned |-> TRUE, success |-> TRUE, message |-> message,
                        sources |-> SubSeq(rankedDocuments, 1,
                                           Min(config.maxSources, Len(rankedDocuments))),
                        images |-> keptImages, videos |-> keptVideos,
                        searchIntent |-> searchIntent,
                        executionTime |-> now - startTime]
        /\ streamData({"search_complete"})
        /\ streamController' = "closed"
     \/ /\ progressCallback = "throwing"
        /\ pc' = "catch"
        /\ UNCHANGED <<result, streamEvents, streamController>>
  /\ UNCHANGED <<now, startTime, pipelineStages, searchIntent, expandedQueries, searchCalls,
                 docsBranch, imagesBranch, videosBranch, allUrls, documents,
                 images, videos, rankedDocuments, fusion, contextChunks,
                 embedCalls, llmCalls, message, fallbackContext, runs, config, progressCallback,
                 chunkCache, outsidePipeline>>

\* ------------------------------------------ components a run does not use
\* A NeuralReranker, a ContextualFusion and an IntentDetector that are never
\* called directly.
rerankUnused ==
  /\ rrPhase = "idle"
  /\ rrOut = <<>>
  /\ rrEmbedCalls = 0
  /\ rrConfig = config.rerankingConfig
  /\ rrQuery = [words |-> 5, timeSensitive |-> FALSE, technical |-> FALSE]
  /\ rrDocs = <<>>

fusionUnused ==
  /\ cfConfig = config.fusionConfig
  /\ cfPhase = "idle"
  /\ cfCalls = 0
  /\ cfQuery = "q1"
  /\ cfDocs = <<>>
  /\ cfChunks = <<>>
  /\ cfBatches = <<>>
  /\ cfEnhanced = <<>>
  /\ cfOut = <<>>
  /\ cfCache = {}
  /\ cfLog = <<>>
  /\ cfConsumed = FALSE

intentUnused ==
  /\ idQuery = <<>>
  /\ idLlm = TRUE
  /\ idPhase = "idle"
  /\ idInvocations = 0
  /\ idResponse = <<>>
  /\ idOut = <<>>
  /\ idQueries = <<>>

\* The components SpecOverlap, SpecDelivery, SpecRetrieve, SpecStream and
\* SpecConcurrent add are unused elsewhere.
overlapUnused ==
  /\ ovArrays = <<>>
  /\ ovThis = 0
  /\ ovPos = <<>>
  /\ ovResult = <<>>
  /\ dvChunks = <<>>
  /\ dvPhase = "idle"
  /\ dvSelected = <<>>
  /\ rdParallel = TRUE
  /\ rdCalls = <<>>
  /\ rdPhase = "collected"
  /\ rdUrls = <<>>
  /\ rdMetadata = <<>>
  /\ scClosed = FALSE
  /\ scController = TRUE
  /\ scStream = "readable"
  /\ scQueue = <<>>
  /\ scCalls = 0
  /\ scThrew = FALSE
  /\ ccMode = "quick"
  /\ ccField = <<>>
  /\ ccCalls = <<>>

planUnused ==
  /\ paConfig = <<>>
  /\ paIntent = <<>>
  /\ paMode = "quick"
  /\ paQuery = <<>>
  /\ paPhase = "idle"
  /\ paCalls = 0
  /\ paDetections = 0
  /\ paStageQ = NoIntent
  /\ paResult = NoResult

\* ---------------------------------------- rerankDocuments called directly
\* The intents a reranking configuration is resolved from: every value of what
\* getFreshnessWeight and getDiversityWeight read, and a low and a high
\* recommended threshold.
RerankIntents ==
  {NoIntent} \cup
  { Intent(s, c, t, FALSE, FALSE, "low", FALSE, 2, "medium", TRUE, thr) :
      s \in {"quickAnswer", "research", "news", "comparison"},
      c \in {"simple", "complex"},
      t \in {"timeless", "current", "trending"},
      thr \in {20, 80} }

RerankConfigs ==
  {getSearchConfig(m, i).rerankingConfig : m \in Modes, i \in RerankIntents}

rrIdle ==
  /\ rrPhase = "idle"
  /\ rrOut = <<>>
  /\ rrEmbedCalls = 0

\* rerankDocuments up to its first await: [] for no documents, otherwise the
\* embedQuery calls for the query and for every document are issued.
rerank_call ==
  /\ rrPhase = "idle"
  /\ IF Len(rrDocs) = 0
     THEN /\ rrPhase' = "returned"
          /\ rrOut' = rerankDocuments(rrConfig, rrQuery, rrDocs)
          /\ UNCHANGED rrEmbedCalls
     ELSE /\ rrPhase' = "embedding"
          /\ rrEmbedCalls' = embedQueryCalls(rrDocs)
          /\ UNCHANGED rrOut
  /\ UNCHANGED <<rrConfig, rrQuery, rrDocs, outsideRerank>>

\* An embedQuery call rejects: so does rerankDocuments.
rerank_embeddingsFail ==
  /\ rrPhase = "embedding"
  /\ rrPhase' = "threw"
  /\ UNCHANGED <<rrConfig, rrQuery, rrDocs, rrOut, rrEmbedCalls, outsideRerank>>

\* The embeddings resolved: scoring, sort, filter and the result.
rerank_return ==
  /\ rrPhase = "embedding"
  /\ rrPhase' = "returned"
  /\ rrOut' = rerankDocuments(rrConfig, rrQuery, rrDocs)
  /\ UNCHANGED <<rrConfig, rrQuery, rrDocs, rrEmbedCalls, outsideRerank>>

RerankInit ==
  /\ PipelineInit
  /\ config = getSearchConfig("quick", NoIntent)
  /\ rrIdle
  /\ rrConfig \in RerankConfigs
  /\ rrQuery \in QueryShapes
  /\ rrDocs \in SeqsUpTo(DocPool, MaxDocs)
  /\ fusionUnused
  /\ intentUnused
  /\ planUnused
  /\ overlapUnused

RerankNext ==
  \/ rerank_call
  \/ rerank_embeddingsFail
  \/ rerank_return

SpecRerank == RerankInit /\ [][RerankNext]_vars

\* ------------------------------------- createContextChunks called directly
\* A ranked document as the fusion engine sees it: its url, its text (the
\* upper-case texts differ from the lower-case ones in case only) and the
\* number of chunks its words are cut into (0 for a text under 100
\* characters or 50 words).
FusionDoc(url, text, pieces) == [url |-> url, text |-> text, pieces |-> pieces]

FusionDocPool ==
  { FusionDoc("a", "t1", 2), FusionDoc("b", "t2", 1), FusionDoc("c", "T1", 1) }

FusionQueries == {"q1", "q2"}

\* Configurations given to the ContextualFusion constructor: with the
\* enhancement skipped (where batchSize and enableParallelProcessing are not
\* read) with and without deduplication, and with the enhancement in every
\* batching mode. Document lists hold at most 5 documents, for which
\* createContextChunks skips the grouping.
FusionConfigs ==
  { cfg \in [maxChunks : {1, 3}, deduplication : BOOLEAN, skipEnhancement : BOOLEAN,
             batchSize : {1, 2}, enableParallelProcessing : BOOLEAN] :
      /\ cfg.skipEnhancement => (cfg.batchSize = 1 /\ ~cfg.enableParallelProcessing)
      /\ ~cfg.deduplication => cfg.skipEnhancement }

\* chunk.content.toLowerCase().replace(/\s+/g, ' ').trim()
normalized(content) ==
  [content EXCEPT !.text = IF @ = "T1" THEN "t1" ELSE IF @ = "T2" THEN "t2" ELSE @]

\* The for loop of createOverlappingChunksOptimized over one document, from
\* one piece on: a chunk per piece, left early at maxChunks * 2 chunks.
RECURSIVE chunksOfDocument(_, _, _, _)
chunksOfDocument(doc, piece, chunks, cfg) ==
  IF piece >= doc.pieces THEN chunks
  ELSE LET pushed == Append(chunks,
                            [id |-> Len(chunks),
                             content |-> [kind |-> "original", text |-> doc.text,
                                          piece |-> piece],
                             source |-> doc.url,
                             relevanceScore |-> doc.relevanceScore,
                             enhanced |-> "unset",
                             enhancementError |-> FALSE])
       IN IF Len(pushed) >= cfg.maxChunks * 2 THEN pushed
          ELSE chunksOfDocument(doc, piece + 1, pushed, cfg)

RECURSIVE createOverlappingChunksOptimized(_, _, _)
createOverlappingChunksOptimized(docs, chunks, cfg) ==
  IF docs = <<>> THEN chunks
  ELSE createOverlappingChunksOptimized(
         Tail(docs), chunksOfDocument(Head(docs), 0, chunks, cfg), cfg)

\* The first chunk of every normalized content, in order.
RECURSIVE deduplicateChunks(_)
deduplicateChunks(chunks) ==
  IF chunks = <<>> THEN <<>>
  ELSE LET unique == deduplicateChunks(SubSeq(chunks, 1, Len(chunks) - 1))
           chunk == chunks[Len(chunks)]
       IN IF \E i \in 1..Len(unique) :
               normalized(unique[i].content) = normalized(chunk.content)
          THEN unique
          ELSE Append(unique, chunk)

\* createContextChunks from the cache miss to the slice to maxChunks.
finalChunksOf(docs, cfg) ==
  LET topDocs == SubSeq(docs, 1, Min(Len(docs), cfg.maxChunks * 3))
      chunks == createOverlappingChunksOptimized(topDocs, <<>>, cfg)
      unique == IF cfg.deduplication THEN deduplicateChunks(chunks) ELSE chunks
  IN SubSeq(unique, 1, Min(Len(unique), cfg.maxChunks))

createBatches(array, size) ==
  [b \in 1..CeilDiv(Len(array), size) |->
     SubSeq(array, (b - 1) * size + 1, Min(b * size, Len(array)))]

\* The outcome of chain.invoke in which the chat model fails.
ChainFails == -1

\* processSingleBatch without its try/catch: a failed chain.invoke escapes.
processSingleBatchUncaught(batch, segments) ==
  [threw |-> segments = ChainFails,
   chunks |-> [i \in 1..Len(batch) |-> [batch[i] EXCEPT !.enhanced = "true"]]]

\* processSingleBatch for a chat-model answer of `segments` non-empty
\* segments, or a failed call: what the batch resolves to.
processSingleBatch(batch, segments) ==
  IF segments = ChainFails
  THEN [threw |-> FALSE,
        chunks |-> [i \in 1..Len(batch) |->
                      [batch[i] EXCEPT !.enhanced = "false",
                                       !.enhancementError = TRUE]]]
  ELSE [threw |-> FALSE,
        chunks |-> [i \in 1..Len(batch) |->
                      [batch[i] EXCEPT
                         !.content = IF i <= segments
                                     THEN [kind |-> "segment", text |-> "llm",
                                           piece |-> i]
                                     ELSE @,
                         !.enhanced = "true"]]]

\* `${query}-${documents.length}-${JSON.stringify(this.config)}`
fusionCacheKey(query, docs) == <<query, Len(docs), cfConfig>>

fusionCacheHas(key) == \E e \in cfCache : e[1] = key
fusionCacheGet(key) == (CHOOSE e \in cfCache : e[1] = key)[2]
\* A cache that never stores.
fusionCacheKept(key, chunks) == cfCache

fusionCacheSet(key, chunks) == {e \in cfCache : e[1] # key} \cup {<<key, chunks>>}

\* The batches awaited together: pairs when enableParallelProcessing is set
\* and there is more than one batch, single batches otherwise.
\* Every batch issued at once.
groupOfAllBatches(nBatches) == nBatches

groupSize(nBatches) ==
  IF cfConfig.enableParallelProcessing /\ nBatches > 1 THEN 2 ELSE 1

groupOf(b, nBatches) == CeilDiv(b, groupSize(nBatches))

groupMembers(g, nBatches) == {b \in 1..nBatches : groupOf(b, nBatches) = g}

\* The processSingleBatch calls of one group are issued.
startGroup(batches, g) ==
  [b \in 1..Len(batches) |->
     IF groupOf(b, Len(batches)) = g
     THEN [batches[b] EXCEPT !.status = "inflight"]
     ELSE batches[b]]

\* The results appended in the reverse of batch order.
RECURSIVE concatReversed(_, _, _)
concatReversed(batches, from, to) ==
  IF from > to THEN <<>>
  ELSE concatReversed(batches, from + 1, to) \o batches[from].result

RECURSIVE concatResults(_, _, _)
concatResults(batches, from, to) ==
  IF from > to THEN <<>>
  ELSE batches[from].result \o concatResults(batches, from + 1, to)

\* createContextChunks resolves.
fusionReturns(query, docs, out, served, invoked) ==
  /\ cfPhase' = "returned"
  /\ cfOut' = out
  /\ cfLog' = Append(cfLog, [query |-> query, docs |-> docs, out |-> out,
                             served |-> served, llmCalls |-> invoked])

\* createContextChunks up to its first await that does not resolve at once:
\* [] for no documents, the cached chunks, the chunks without enhancement, or
\* the first group of enhancement batches in flight.
createContextChunks_call ==
  /\ cfPhase \in {"idle", "returned", "threw"}
  /\ cfCalls < MaxCalls
  /\ cfCalls' = cfCalls + 1
  /\ cfConsumed' = FALSE
  /\ \E query \in FusionQueries, ranking \in SeqsUpTo(FusionDocPool, MaxFusionDocs) :
       LET docs == [r \in 1..Len(ranking) |->
                      [url |-> ranking[r].url, text |-> ranking[r].text,
                       pieces |-> ranking[r].pieces,
                       relevanceScore |-> Len(ranking) - r]]
           key == fusionCacheKey(query, docs)
           finalChunks == finalChunksOf(docs, cfConfig)
           batches == [b \in 1..Len(createBatches(finalChunks, cfConfig.batchSize)) |->
                         [chunks |-> createBatches(finalChunks, cfConfig.batchSize)[b],
                          status |-> "waiting", segments |-> ChainFails,
                          settledAfter |-> 0, result |-> <<>>]]
       IN /\ cfQuery' = query
          /\ cfDocs' = docs
          /\ cfEnhanced' = <<>>
          /\ IF docs = <<>>
             THEN /\ fusionReturns(query, docs, <<>>, "empty", 0)
                  /\ cfChunks' = <<>>
                  /\ cfBatches' = <<>>
                  /\ UNCHANGED cfCache
             ELSE IF fusionCacheHas(key)
             THEN /\ fusionReturns(query, docs, fusionCacheGet(key), "cache", 0)
                  /\ cfChunks' = <<>>
                  /\ cfBatches' = <<>>
                  /\ UNCHANGED cfCache
             ELSE IF cfConfig.skipEnhancement \/ finalChunks = <<>>
             THEN /\ fusionReturns(query, docs, finalChunks, "computed", 0)
                  /\ cfChunks' = finalChunks
                  /\ cfBatches' = <<>>
                  /\ cfCache' = fusionCacheSet(key, finalChunks)
             ELSE /\ cfPhase' = "enhancing"
                  /\ cfChunks' = finalChunks
                  /\ cfBatches' = startGroup(batches, 1)
                  /\ UNCHANGED <<cfOut, cfCache, cfLog>>
  /\ UNCHANGED <<cfConfig, outsideFusion>>

\* One chain.invoke of a batch settles, with a failure or with some number of
\* segments. When it is the last of its group the awaiting loop goes on: the
\* group's results are appended in batch order, and either the next group is
\* issued or the chunks are cached and returned.
processSingleBatch_settles(b) ==
  /\ cfPhase = "enhancing"
  /\ b \in 1..Len(cfBatches)
  /\ cfBatches[b].status = "inflight"
  /\ \E segments \in {ChainFails} \cup (0..(Len(cfBatches[b].chunks) + 1)) :
       LET r == processSingleBatch(cfBatches[b].chunks, segments)
           n == Len(cfBatches)
           g == groupOf(b, n)
           settled == [cfBatches EXCEPT
                         ![b].status = "settled",
                         ![b].segments = segments,
                         ![b].settledAfter =
                            Cardinality({m \in 1..n : cfBatches[m].status = "settled"}),
                         ![b].result = r.chunks]
           groupDone == \A m \in groupMembers(g, n) : settled[m].status = "settled"
           enhanced == cfEnhanced \o concatResults(settled, (g - 1) * groupSize(n) + 1,
                                                   Min(g * groupSize(n), n))
       IN IF r.threw
          THEN /\ cfPhase' = "threw"
               /\ cfBatches' = settled
               /\ UNCHANGED <<cfEnhanced, cfOut, cfCache, cfLog>>
          ELSE IF ~groupDone
          THEN /\ cfBatches' = settled
               /\ UNCHANGED <<cfPhase, cfEnhanced, cfOut, cfCache, cfLog>>
          ELSE IF g < groupOf(n, n)
          THEN /\ cfBatches' = startGroup(settled, g + 1)
               /\ cfEnhanced' = enhanced
               /\ UNCHANGED <<cfPhase, cfOut, cfCache, cfLog>>
          ELSE /\ cfBatches' = settled
               /\ cfEnhanced' = enhanced
               /\ cfCache' = fusionCacheSet(fusionCacheKey(cfQuery, cfDocs), enhanced)
               /\ fusionReturns(cfQuery, cfDocs, enhanced, "computed", n)
  /\ UNCHANGED <<cfConfig, cfCalls, cfQuery, cfDocs, cfChunks, cfConsumed, outsideFusion>>

\* The least relevant chunks first.
leastRelevantFirst(chunks) ==
  LET byScore == sortByScore([i \in 1..Len(chunks) |->
                                [score |-> 0 - chunks[i].relevanceScore, index |-> i]])
  IN [r \in 1..Min(Len(chunks), 15) |-> chunks[byScore[r].index]]

\* sortedChunks: contextChunks.sort((a, b) => b.relevanceScore -
\* a.relevanceScore).slice(0, 15).
sortedChunksOf(chunks) ==
  LET byScore == sortByScore([i \in 1..Len(chunks) |->
                                [score |-> chunks[i].relevanceScore, index |-> i]])
  IN [r \in 1..Min(Len(chunks), 15) |-> chunks[byScore[r].index]]

\* Stage D receives the array createContextChunks returned and sorts it in
\* place before it copies the top 15 (the arrays here are shorter). Unless
\* the array is the [] of the orchestrator's wrapper it is the very array the
\* chunk cache holds under the call's key.
generateUnifiedAnswerOptimized_sort ==
  /\ cfPhase = "returned"
  /\ cfOut # <<>>
  /\ ~cfConsumed
  /\ cfConsumed' = TRUE
  /\ cfOut' = sortedChunksOf(cfOut)
  /\ cfCache' = fusionCacheSet(fusionCacheKey(cfQuery, cfDocs), sortedChunksOf(cfOut))
  /\ UNCHANGED <<cfConfig, cfPhase, cfCalls, cfQuery, cfDocs, cfChunks, cfBatches,
                 cfEnhanced, cfLog, outsideFusion>>

FusionInit ==
  /\ PipelineInit
  /\ config = getSearchConfig("quick", NoIntent)
  /\ rerankUnused
  /\ cfConfig \in FusionConfigs
  /\ cfPhase = "idle"
  /\ cfCalls = 0
  /\ cfQuery = "q1"
  /\ cfDocs = <<>>
  /\ cfChunks = <<>>
  /\ cfBatches = <<>>
  /\ cfEnhanced = <<>>
  /\ cfOut = <<>>
  /\ cfCache = {}
  /\ cfLog = <<>>
  /\ cfConsumed = FALSE
  /\ intentUnused
  /\ planUnused
  /\ overlapUnused

FusionNext ==
  \/ createContextChunks_call
  \/ \E b \in 1..Len(cfBatches) : processSingleBatch_settles(b)
  \/ generateUnifiedAnswerOptimized_sort

SpecFusion == FusionInit /\ [][FusionNext]_vars

\* ------------------------------------------- detectIntent called directly
\* Confidences, relevanceThreshold and timeoutMultiplier are in hundredths.
\*
\* The queries, as getQuickIntent and detectIntent read them: whether the
\* trimmed text is empty, query.split(' ').length, whether the text includes
\* 'and', 'or' or 'but', the number of keywords of each strategy and of each
\* temporal class it includes, and whether it includes an image, a video and a
\* visual-learning keyword.
IntentQueries ==
  LET none == [k \in {"quickAnswer", "research", "comparison", "tutorial", "news",
                      "reference", "creative", "current", "historical",
                      "trending"} |-> 0]
      Query(blank, words, connective, hits, needsImages, needsVideos, visual) ==
        [blank |-> blank, words |-> words, connective |-> connective,
         hits |-> hits, needsImages |-> needsImages, needsVideos |-> needsVideos,
         visualLearning |-> visual]
  IN { \* ''
       Query(TRUE, 1, FALSE, none, FALSE, FALSE, FALSE),
       \* '   '
       Query(TRUE, 4, FALSE, none, FALSE, FALSE, FALSE),
       \* 'rust'
       Query(FALSE, 1, FALSE, none, FALSE, FALSE, FALSE),
       \* 'What is quantum computing'
       Query(FALSE, 4, FALSE, [none EXCEPT !["quickAnswer"] = 1], FALSE, FALSE, FALSE),
       \* 'compare research study of solar and wind power plants today'
       Query(FALSE, 10, TRUE,
             [none EXCEPT !["research"] = 2, !["comparison"] = 1, !["news"] = 1,
                          !["current"] = 1], FALSE, FALSE, FALSE),
       \* 'how to bake a chocolate cake'
       Query(FALSE, 6, FALSE, [none EXCEPT !["tutorial"] = 1], FALSE, FALSE, TRUE),
       \* 'latest news today'
       Query(FALSE, 3, FALSE, [none EXCEPT !["news"] = 3, !["current"] = 3],
             FALSE, FALSE, FALSE),
       \* 'watch popular video'
       Query(FALSE, 3, FALSE, [none EXCEPT !["trending"] = 1], FALSE, TRUE, FALSE),
       \* 'picture of the old town'
       Query(FALSE, 5, FALSE, [none EXCEPT !["historical"] = 1], TRUE, FALSE, FALSE) }

\* Object.entries(keywords).forEach: the first key, in declaration order, whose
\* score is strictly above every earlier one; the default for no hit.
RECURSIVE bestKey(_, _, _, _)
bestKey(keys, hits, best, bestScore) ==
  IF keys = <<>> THEN [key |-> best, score |-> bestScore]
  ELSE IF hits[Head(keys)] > bestScore
       THEN bestKey(Tail(keys), hits, Head(keys), hits[Head(keys)])
       ELSE bestKey(Tail(keys), hits, best, bestScore)

getQuickIntent(query) ==
  LET strategyPick == bestKey(<<"quickAnswer", "research", "comparison", "tutorial",
                                "news", "reference", "creative">>,
                              query.hits, "quickAnswer", 0)
      strategy == strategyPick.key
      complexity == IF query.words < 4 THEN "simple"
                    ELSE IF query.connective \/ query.words > 8 THEN "complex"
                    ELSE "medium"
      temporalPick == bestKey(<<"current", "historical", "trending">>,
                              query.hits, "timeless", 0)
      mediaImportance == IF query.visualLearning \/ strategy = "tutorial" THEN "high"
                         ELSE IF query.needsImages \/ query.needsVideos THEN "medium"
                         ELSE "low"
  IN [strategy |-> strategy,
      complexity |-> complexity,
      temporal |-> temporalPick.key,
      contentPreferences |->
        [needsImages |-> query.needsImages, needsVideos |-> query.needsVideos,
         mediaImportance |-> mediaImportance,
         visualLearning |-> query.visualLearning],
      confidence |->
        [strategy |-> IF strategyPick.score > 0 THEN 70 ELSE 50,
         complexity |-> 60,
         temporal |-> IF temporalPick.score > 0 THEN 70 ELSE 50,
         contentPreferences |-> 60],
      reasoning |-> "heuristic",
      recommendations |->
        [searchQueries |-> IF complexity = "simple" THEN 2
                           ELSE IF complexity = "medium" THEN 3 ELSE 4,
         searchDepth |-> IF complexity = "simple" THEN "shallow"
                         ELSE IF complexity = "medium" THEN "medium" ELSE "deep",
         parallelization |-> TRUE,
         earlyTermination |-> (strategy = "quickAnswer" /\ complexity = "simple"),
         relevanceThreshold |-> IF strategy = "quickAnswer" THEN 50
                                ELSE IF strategy = "research" THEN 30 ELSE 40,
         timeoutMultiplier |-> IF complexity = "simple" THEN 80
                               ELSE IF complexity = "complex" THEN 150 ELSE 100],
      primaryIntent |-> IF query.needsImages /\ query.needsVideos THEN "mixed"
                        ELSE IF query.needsImages THEN "images"
                        ELSE IF query.needsVideos THEN "videos" ELSE "documents",
      needsImages |-> query.needsImages,
      needsVideos |-> query.needsVideos]

\* What llm.invoke can settle with: a rejection, text without a {...} part,
\* a {...} part JSON.parse rejects, or a JSON object. In the object "absent"
\* is a missing (or empty) string field, a missing contentPreferences has
\* present = FALSE, and 0 stands for a missing number as well, which `||`
\* treats alike.
LlmResponses ==
  LET Json == [strategy : {"absent", "tutorial", "banana"},
               complexity : {"absent", "medium"},
               temporal : {"absent", "current"},
               contentPreferences :
                 { [present |-> FALSE, needsImages |-> FALSE, needsVideos |-> FALSE,
                    mediaImportance |-> "absent", visualLearning |-> FALSE],
                   [present |-> TRUE, needsImages |-> FALSE, needsVideos |-> FALSE,
                    mediaImportance |-> "absent", visualLearning |-> FALSE],
                   [present |-> TRUE, needsImages |-> TRUE, needsVideos |-> TRUE,
                    mediaImportance |-> "high", visualLearning |-> TRUE] },
               confidence :
                 { [strategy |-> 0, complexity |-> 0, temporal |-> 0,
                    contentPreferences |-> 0],
                   [strategy |-> 90, complexity |-> 100, temporal |-> 35,
                    contentPreferences |-> 70],
                   [strategy |-> 500, complexity |-> -100, temporal |-> 70,
                    contentPreferences |-> 70] },
               recommendations :
                 [searchQueries : {-1, 0, 1, 4, 6, 7},
                  parallelization : BOOLEAN,
                  relevanceThreshold : {0, 10, 20, 80, 95},
                  timeoutMultiplier : {0, 40, 50, 200, 300}]]
      blank == CHOOSE j \in Json : TRUE
  IN {[kind |-> k, json |-> blank] : k \in {"throws", "noJson", "badJson"}}
       \cup {[kind |-> "json", json |-> j] : j \in Json}

\* No clamping: the value as the model gave it.
unclamped(x, lo, hi) == x

\* Math.min(Math.max(x, lo), hi)
clamp(x, lo, hi) == Min(Max(x, lo), hi)

\* getLLMIntent once llm.invoke has settled: it throws, or returns the intent
\* built from the JSON object.
getLLMIntent(response) ==
  LET intent == response.json
      prefs == intent.contentPreferences
      orElse(x, default) == IF x = 0 THEN default ELSE x
      mapToPrimaryIntent ==
        IF prefs.mediaImportance = "high" /\ prefs.needsImages /\ prefs.needsVideos
        THEN "mixed"
        ELSE IF prefs.mediaImportance = "high" /\ prefs.needsImages THEN "images"
        ELSE IF prefs.mediaImportance = "high" /\ prefs.needsVideos THEN "videos"
        ELSE IF intent.strategy = "tutorial" /\ prefs.visualLearning THEN "mixed"
        ELSE IF intent.strategy = "reference" /\ prefs.needsImages THEN "images"
        ELSE "documents"
  IN IF \/ response.kind # "json"
        \/ intent.strategy = "absent" \/ intent.complexity = "absent"
        \/ intent.temporal = "absent" \/ ~prefs.present
     THEN [threw |-> TRUE, intent |-> <<>>]
     ELSE [threw |-> FALSE,
           intent |->
             [strategy |-> intent.strategy,
              complexity |-> intent.complexity,
              temporal |-> intent.temporal,
              contentPreferences |->
                [needsImages |-> prefs.needsImages, needsVideos |-> prefs.needsVideos,
                 mediaImportance |-> IF prefs.mediaImportance = "absent" THEN "low"
                                     ELSE prefs.mediaImportance,
                 visualLearning |-> prefs.visualLearning],
              confidence |->
                [strategy |-> orElse(intent.confidence.strategy, 70),
                 complexity |-> orElse(intent.confidence.complexity, 70),
                 temporal |-> orElse(intent.confidence.temporal, 70),
                 contentPreferences |-> orElse(intent.confidence.contentPreferences, 70)],
              reasoning |-> "llm",
              recommendations |->
                [searchQueries |->
                   clamp(orElse(intent.recommendations.searchQueries, 3), 1, 6),
                 searchDepth |-> "medium",
                 parallelization |-> intent.recommendations.parallelization,
                 earlyTermination |-> TRUE,
                 relevanceThreshold |->
                   clamp(orElse(intent.recommendations.relevanceThreshold, 40), 20, 80),
                 timeoutMultiplier |->
                   clamp(orElse(intent.recommendations.timeoutMultiplier, 100), 50, 200)],
              primaryIntent |-> mapToPrimaryIntent,
              needsImages |-> prefs.needsImages,
              needsVideos |-> prefs.needsVideos]]

\* A detectIntent that sends every query to the chat model.
neverBlank(query) == FALSE

\* !query || query.trim().length === 0
isBlank(query) == query.blank

\* A detectIntent without its try/catch.
propagateFailure(query, attempt) == attempt

\* The try/catch of detectIntent around getLLMIntent.
recoverIntent(query, attempt) ==
  IF attempt.threw THEN [threw |-> FALSE, intent |-> getQuickIntent(query)]
  ELSE attempt

\* How a detectIntent call ends.
intentSettles(outcome) ==
  /\ idPhase' = IF outcome.threw THEN "threw" ELSE "returned"
  /\ idOut' = outcome.intent

\* detectIntent up to llm.invoke: the heuristic intent for a blank query, the
\* failure of getLLMIntent for a detector without a chat model, or the
\* chat-model call in flight.
detectIntent_call ==
  /\ idPhase = "idle"
  /\ IF isBlank(idQuery)
     THEN /\ intentSettles([threw |-> FALSE, intent |-> getQuickIntent(idQuery)])
          /\ UNCHANGED idInvocations
     ELSE IF ~idLlm
     THEN /\ intentSettles(recoverIntent(idQuery, [threw |-> TRUE, intent |-> <<>>]))
          /\ UNCHANGED idInvocations
     ELSE /\ idPhase' = "invoking"
          /\ idInvocations' = idInvocations + 1
          /\ UNCHANGED idOut
  /\ UNCHANGED <<idQuery, idLlm, idResponse, idQueries, outsideIntent>>

\* llm.invoke settles and detectIntent returns.
getLLMIntent_settles ==
  /\ idPhase = "invoking"
  /\ \E response \in LlmResponses :
       /\ idResponse' = response
       /\ intentSettles(recoverIntent(idQuery, getLLMIntent(response)))
  /\ UNCHANGED <<idQuery, idLlm, idInvocations, idQueries, outsideIntent>>

\* stageQ_QueryUnderstanding after detectIntent has resolved: the intent is
\* handed to generateIntentAwareQueries.
stageQ_QueryUnderstanding ==
  /\ idPhase = "returned"
  /\ idQueries = <<>>
  /\ idQueries' = generateIntentAwareQueries(
                     [strategy |-> idOut.strategy,
                      searchQueries |-> idOut.recommendations.searchQueries])
  /\ UNCHANGED <<idQuery, idLlm, idPhase, idInvocations, idResponse, idOut,
                 outsideIntent>>

IntentInit ==
  /\ PipelineInit
  /\ config = getSearchConfig("quick", NoIntent)
  /\ rerankUnused
  /\ fusionUnused
  /\ idQuery \in IntentQueries
  /\ idLlm \in BOOLEAN
  /\ idPhase = "idle"
  /\ idInvocations = 0
  /\ idResponse = CHOOSE r \in LlmResponses : r.kind = "throws"
  /\ idOut = <<>>
  /\ idQueries = <<>>
  /\ planUnused
  /\ overlapUnused

IntentNext ==
  \/ detectIntent_call
  \/ getLLMIntent_settles
  \/ stageQ_QueryUnderstanding

SpecIntent == IntentInit /\ [][IntentNext]_vars

\* ------------------------------------------------- the search classes
\* QuickSearchOrchestrator, ProSearchOrchestrator and UltraSearchOrchestrator:
\* each holds a SearchOrchestrator built from getSearchConfig(mode) and, per
\* planAndExecute call, replaces it by one built from the detected intent.

\* What the chat model answers an intent prompt with: a failure, or one of two
\* well-formed intents that differ in their media preferences.
PlanResponses ==
  {r \in LlmResponses :
     \/ r.kind = "throws"
     \/ /\ r.kind = "json"
        /\ r.json.strategy = "tutorial"
        /\ r.json.complexity = "medium"
        /\ r.json.temporal = "current"
        /\ r.json.contentPreferences.present
        /\ r.json.contentPreferences.mediaImportance = "absent"
             => r.json.recommendations.parallelization
        /\ r.json.contentPreferences.mediaImportance = "high"
             => ~r.json.recommendations.parallelization
        /\ r.json.confidence.strategy = 90
        /\ r.json.recommendations.searchQueries = 4
        /\ r.json.recommendations.relevanceThreshold = 20
        /\ r.json.recommendations.timeoutMultiplier = 50}

\* The SearchIntent a detectIntent call resolves to when the chat model
\* settles with `response`, in the fields the resolver and the pipeline read.
detectIntent(query, response) ==
  LET intent == IF isBlank(query) THEN getQuickIntent(query)
                ELSE recoverIntent(query, getLLMIntent(response)).intent
  IN Intent(intent.strategy, intent.complexity, intent.temporal,
            intent.contentPreferences.needsImages,
            intent.contentPreferences.needsVideos,
            intent.contentPreferences.mediaImportance,
            intent.contentPreferences.visualLearning,
            intent.recommendations.searchQueries,
            intent.recommendations.searchDepth,
            intent.recommendations.parallelization,
            intent.recommendations.relevanceThreshold)

\* planAndExecute up to `await intentDetector.detectIntent(message)`. The
\* messages are 'rust', 'What is quantum computing' and 'compare research
\* study of solar and wind power plants today', for which the heuristic
\* recommends a shallow, a medium and a deep search.
planAndExecute_call ==
  /\ paPhase \in {"idle", "returned"}
  /\ paCalls < MaxCalls
  /\ paCalls' = paCalls + 1
  /\ paMode' \in Modes
  /\ paQuery' \in {q \in IntentQueries : ~q.blank /\ q.words \in {1, 4, 10}}
  /\ paPhase' = "detecting"
  /\ paDetections' = 1
  /\ paStageQ' = NoIntent
  /\ paResult' = NoResult
  /\ UNCHANGED <<paConfig, paIntent, outsidePlan>>

\* detectIntent resolves: the configuration is resolved from the intent, a
\* new SearchOrchestrator is built from it, and its executeSearch runs up to
\* Stage Q's `await this.intentDetector.detectIntent(query)`.
planAndExecute_configure ==
  /\ paPhase = "detecting"
  /\ \E response \in PlanResponses :
       LET detected == detectIntent(paQuery, response)
       IN /\ paIntent' = [paIntent EXCEPT ![paMode] = detected]
          /\ paConfig' = [paConfig EXCEPT ![paMode] = getSearchConfig(paMode, detected)]
  /\ paPhase' = "stageQ"
  /\ paDetections' = paDetections + 1
  /\ UNCHANGED <<paMode, paQuery, paCalls, paStageQ, paResult, outsidePlan>>

\* Stage Q's detectIntent resolves; its intent goes to query generation, to
\* Stage S and Stage D, and into the SearchResult executeSearchInternal
\* returns.
executeSearchInternal_settles ==
  /\ paPhase = "stageQ"
  /\ \E response \in PlanResponses :
       LET detected == detectIntent(paQuery, response)
       IN /\ paStageQ' = detected
          /\ paResult' = [returned |-> TRUE, searchIntent |-> detected,
                          mode |-> paConfig[paMode].mode]
  /\ paPhase' = "returned"
  /\ UNCHANGED <<paConfig, paIntent, paMode, paQuery, paCalls, paDetections,
                 outsidePlan>>

\* The three search classes after construction.
PlanInit ==
  /\ PipelineInit
  /\ config = getSearchConfig("quick", NoIntent)
  /\ rerankUnused
  /\ fusionUnused
  /\ intentUnused
  /\ paConfig = [mode \in Modes |-> getSearchConfig(mode, NoIntent)]
  /\ paIntent = [mode \in Modes |-> NoIntent]
  /\ paMode = "quick"
  /\ paQuery = <<>>
  /\ paPhase = "idle"
  /\ paCalls = 0
  /\ paDetections = 0
  /\ paStageQ = NoIntent
  /\ paResult = NoResult
  /\ overlapUnused

PlanNext ==
  \/ planAndExecute_call
  \/ planAndExecute_configure
  \/ executeSearchInternal_settles

SpecPlan == PlanInit /\ [][PlanNext]_vars

\* ----------------------------- executeSearch calls that overlap in time
\* Two executeSearch calls on one SearchOrchestrator, as the handlers of two
\* requests make them on a module-level instance: each call runs its stages
\* in order and yields to the other at its awaits.

\* The updatePipelineStage calls of a run without errors, in order.
stageTransitions ==
  [k \in 1..(2 * Len(StageNames)) |->
     [stage |-> StageNames[(k + 1) \div 2],
      status |-> IF k % 2 = 1 THEN "running" ELSE "completed"]]

\* executeSearchInternal up to Stage Q's first await: call c allocates a
\* PipelineStage array, stores it in this.pipelineStages and marks Q running.
overlap_executeSearch(c) ==
  /\ ovPos[c] = 0
  /\ ovThis' = c
  /\ ovArrays' = [ovArrays EXCEPT ![c] = [st \in Stages |-> IF st = "Q" THEN "running"
                                                           ELSE "pending"]]
  /\ ovPos' = [ovPos EXCEPT ![c] = 1]
  /\ UNCHANGED <<ovResult, outsideOverlap>>

\* Call c resumes after an await and makes its next updatePipelineStage call,
\* which looks the stage up in this.pipelineStages.
overlap_updatePipelineStage(c) ==
  /\ ovPos[c] \in 1..(Len(stageTransitions) - 1)
  /\ LET next == stageTransitions[ovPos[c] + 1]
     IN ovArrays' = [ovArrays EXCEPT ![ovThis][next.stage] = next.status]
  /\ ovPos' = [ovPos EXCEPT ![c] = ovPos[c] + 1]
  /\ UNCHANGED <<ovThis, ovResult, outsideOverlap>>

\* Call c builds its SearchResult: pipelineStages: this.pipelineStages.
overlap_return(c) ==
  /\ ovPos[c] = Len(stageTransitions)
  /\ ovResult' = [ovResult EXCEPT ![c] = ovThis]
  /\ ovPos' = [ovPos EXCEPT ![c] = ovPos[c] + 1]
  /\ UNCHANGED <<ovArrays, ovThis, outsideOverlap>>

\* The orchestrator after construction, no call made yet.
OverlapInit ==
  /\ PipelineInit
  /\ config = getSearchConfig("quick", NoIntent)
  /\ rerankUnused
  /\ fusionUnused
  /\ intentUnused
  /\ planUnused
  /\ ovArrays = [a \in 0..MaxCalls |-> [st \in Stages |-> "pending"]]
  /\ ovThis = 0
  /\ ovPos = [c \in 1..MaxCalls |-> 0]
  /\ ovResult = [c \in 1..MaxCalls |-> 0]
  /\ dvChunks = <<>>
  /\ dvPhase = "idle"
  /\ dvSelected = <<>>
  /\ rdParallel = TRUE
  /\ rdCalls = <<>>
  /\ rdPhase = "collected"
  /\ rdUrls = <<>>
  /\ rdMetadata = <<>>
  /\ scClosed = FALSE
  /\ scController = TRUE
  /\ scStream = "readable"
  /\ scQueue = <<>>
  /\ scCalls = 0
  /\ scThrew = FALSE
  /\ ccMode = "quick"
  /\ ccField = <<>>
  /\ ccCalls = <<>>

OverlapNext ==
  \E c \in 1..MaxCalls :
    \/ overlap_executeSearch(c)
    \/ overlap_updatePipelineStage(c)
    \/ overlap_return(c)

SpecOverlap == OverlapInit /\ [][OverlapNext]_vars

\* ------------------------------------- Stage D's context selection
\* The for loop of generateUnifiedAnswerOptimized over sortedChunks: a chunk
\* that fits the 8000 characters is pushed whole; the first that does not is
\* pushed cut to the remaining space, its last three characters '...', if
\* that space is more than 200, and the loop ends. Chunks are their content
\* lengths.
RECURSIVE selectChunks(_, _)
selectChunks(sortedChunks, totalLength) ==
  IF sortedChunks = <<>> THEN <<>>
  ELSE LET chunk == Head(sortedChunks)
           remainingSpace == 8000 - totalLength
       IN IF totalLength + chunk.length <= 8000
          THEN <<[chunk EXCEPT !.ellipsis = FALSE]>>
                 \o selectChunks(Tail(sortedChunks), totalLength + chunk.length)
          ELSE IF remainingSpace > 200
               THEN <<[chunk EXCEPT !.length = (remainingSpace - 3) + 3,
                                    !.ellipsis = TRUE]>>
               ELSE <<>>

\* generateUnifiedAnswerOptimized from its first statement to the selection.
generateUnifiedAnswerOptimized_select ==
  /\ dvPhase = "idle"
  /\ dvPhase' = "selected"
  /\ dvSelected' = selectChunks(sortedChunksOf(dvChunks), 0)
  /\ UNCHANGED <<dvChunks, outsideDelivery>>

\* Stage D is handed up to MaxContextChunks chunks, of lengths around the
\* budget and the 200-character threshold.
DeliveryInit ==
  /\ PipelineInit
  /\ config = getSearchConfig("quick", NoIntent)
  /\ rerankUnused
  /\ fusionUnused
  /\ intentUnused
  /\ planUnused
  /\ ovArrays = <<>>
  /\ ovThis = 0
  /\ ovPos = <<>>
  /\ ovResult = <<>>
  /\ dvChunks \in SeqsUpTo([relevanceScore : {1, 2},
                            length : {150, 250, 7700, 7800, 8100},
                            ellipsis : {FALSE}], MaxContextChunks)
  /\ dvPhase = "idle"
  /\ dvSelected = <<>>
  /\ rdParallel = TRUE
  /\ rdCalls = <<>>
  /\ rdPhase = "collected"
  /\ rdUrls = <<>>
  /\ rdMetadata = <<>>
  /\ scClosed = FALSE
  /\ scController = TRUE
  /\ scStream = "readable"
  /\ scQueue = <<>>
  /\ scCalls = 0
  /\ scThrew = FALSE
  /\ ccMode = "quick"
  /\ ccField = <<>>
  /\ ccCalls = <<>>

DeliveryNext == generateUnifiedAnswerOptimized_select

SpecDelivery == DeliveryInit /\ [][DeliveryNext]_vars

\* ------------------------------------- retrieveDocuments' url collection
\* A collection in which a later result replaces the metadata stored for
\* its url.
RECURSIVE lastResultWins(_, _, _, _)
lastResultWins(calls, index, position, acc) ==
  IF index > Len(calls) THEN acc
  ELSE IF position > Len(calls[index].results)
  THEN lastResultWins(calls, index + 1, 1, acc)
  ELSE LET url == calls[index].results[position]
           entry == [url |-> url, fromQuery |-> index, position |-> position]
       IN lastResultWins(calls, index, position + 1,
            IF \E k \in 1..Len(acc) : acc[k].url = url
            THEN [k \in 1..Len(acc) |-> IF acc[k].url = url THEN entry ELSE acc[k]]
            ELSE Append(acc, entry))

\* results.forEach((docs, index) => docs.forEach(doc => ...)) after
\* Promise.all, and the for loop of the sequential retrieval: the queries'
\* results are visited in validQueries order, and a result whose url allUrls
\* does not include yet is pushed and its metadata stored. A result is its
\* url; acc lists the urls pushed with the query and the position of the
\* result their metadata came from.
RECURSIVE collectResults(_, _, _, _)
collectResults(calls, index, position, acc) ==
  IF index > Len(calls) THEN acc
  ELSE IF position > Len(calls[index].results)
  THEN collectResults(calls, index + 1, 1, acc)
  ELSE LET url == calls[index].results[position]
       IN collectResults(calls, index, position + 1,
            IF \E k \in 1..Len(acc) : acc[k].url = url
            THEN acc
            ELSE Append(acc, [url |-> url, fromQuery |-> index,
                              position |-> position]))

\* One searxng.search call settles with a result list, or fails and counts
\* as []. A sequential retrieval then issues the next query's call. After
\* the last call allUrls and urlMetadata are complete.
searxng_search_settles(i) ==
  /\ rdPhase = "searching"
  /\ i \in 1..Len(rdCalls)
  /\ rdCalls[i].state = "inflight"
  /\ \E outcome \in {"failed", "ok"}, res \in SeqsUpTo(1..MaxResults, MaxResults) :
       /\ outcome = "failed" => res = <<>>
       /\ LET before == Cardinality({j \in 1..Len(rdCalls) :
                                       rdCalls[j].state \in {"failed", "ok"}})
              settled == [rdCalls EXCEPT ![i] = [state |-> outcome, results |-> res,
                                                 settledAfter |-> before]]
              next == IF i < Len(rdCalls) /\ settled[i + 1].state = "idle"
                      THEN [settled EXCEPT ![i + 1].state = "inflight"]
                      ELSE settled
              collected == collectResults(next, 1, 1, <<>>)
          IN /\ rdCalls' = next
             /\ IF \A j \in 1..Len(next) : next[j].state \in {"failed", "ok"}
                THEN /\ rdPhase' = "collected"
                     /\ rdUrls' = [k \in 1..Len(collected) |-> collected[k].url]
                     /\ rdMetadata' =
                          [u \in {collected[k].url : k \in 1..Len(collected)} |->
                             LET k == CHOOSE k \in 1..Len(collected) : collected[k].url = u
                             IN [fromQuery |-> collected[k].fromQuery,
                                 position |-> collected[k].position]]
                ELSE UNCHANGED <<rdPhase, rdUrls, rdMetadata>>
  /\ UNCHANGED <<rdParallel, outsideRetrieve>>

\* retrieveDocuments up to its first await, for one to MaxQueries valid
\* queries: every search is issued when parallelSearches is set, the first
\* one otherwise.
RetrieveInit ==
  /\ PipelineInit
  /\ config = getSearchConfig("quick", NoIntent)
  /\ rerankUnused
  /\ fusionUnused
  /\ intentUnused
  /\ planUnused
  /\ ovArrays = <<>>
  /\ ovThis = 0
  /\ ovPos = <<>>
  /\ ovResult = <<>>
  /\ dvChunks = <<>>
  /\ dvPhase = "idle"
  /\ dvSelected = <<>>
  /\ rdParallel \in BOOLEAN
  /\ \E n \in 1..MaxQueries :
       rdCalls = [i \in 1..n |->
                    [state |-> IF rdParallel \/ i = 1 THEN "inflight" ELSE "idle",
                     results |-> <<>>, settledAfter |-> 0]]
  /\ rdPhase = "searching"
  /\ rdUrls = <<>>
  /\ rdMetadata = <<>>
  /\ scClosed = FALSE
  /\ scController = TRUE
  /\ scStream = "readable"
  /\ scQueue = <<>>
  /\ scCalls = 0
  /\ scThrew = FALSE
  /\ ccMode = "quick"
  /\ ccField = <<>>
  /\ ccCalls = <<>>

RetrieveNext == \E i \in 1..MaxQueries : searxng_search_settles(i)

SpecRetrieve == RetrieveInit /\ [][RetrieveNext]_vars

\* --------------------------- planAndExecute calls that overlap in time
\* Call c of planAndExecute is made with its own message and its own stream
\* controller (stream c); it runs up to `await intentDetector.detectIntent`.
concurrent_planAndExecute(c) ==
  /\ ccCalls[c].phase = "idle"
  /\ ccCalls' = [ccCalls EXCEPT ![c].phase = "detecting"]
  /\ UNCHANGED <<ccMode, ccField, outsideConcurrent>>

\* A resumption that calls executeSearch on the orchestrator the field held
\* before the call's own assignment.
runOnPreviousOrchestrator(c) ==
  /\ ccCalls[c].phase = "detecting"
  /\ \E q \in {q \in IntentQueries : ~q.blank /\ q.words \in {1, 4, 10}},
        response \in PlanResponses :
       LET detected == detectIntent(q, response)
       IN /\ ccField' = [builtBy |-> c, config |-> getSearchConfig(ccMode, detected),
                         stream |-> c]
          /\ ccCalls' = [ccCalls EXCEPT ![c] = [phase |-> "executing",
                                                intent |-> detected,
                                                ranOn |-> ccField]]
  /\ UNCHANGED <<ccMode, outsideConcurrent>>

\* detectIntent resolves for call c. Without another await the call resolves
\* its config, assigns this.orchestrator = new SearchOrchestrator(config,
\* streamController) and calls this.orchestrator.executeSearch, which runs
\* up to its first await.
concurrent_configure(c) ==
  /\ ccCalls[c].phase = "detecting"
  /\ \E q \in {q \in IntentQueries : ~q.blank /\ q.words \in {1, 4, 10}},
        response \in PlanResponses :
       LET detected == detectIntent(q, response)
       IN /\ ccField' = [builtBy |-> c, config |-> getSearchConfig(ccMode, detected),
                         stream |-> c]
          /\ ccCalls' = [ccCalls EXCEPT ![c] = [phase |-> "executing",
                                                intent |-> detected,
                                                ranOn |-> ccField']]
  /\ UNCHANGED <<ccMode, outsideConcurrent>>

\* The executeSearch of call c resolves, and with it the call.
concurrent_return(c) ==
  /\ ccCalls[c].phase = "executing"
  /\ ccCalls' = [ccCalls EXCEPT ![c].phase = "returned"]
  /\ UNCHANGED <<ccMode, ccField, outsideConcurrent>>

\* One search class after construction: its orchestrator has the mode's
\* default config and no stream controller (stream 0).
ConcurrentInit ==
  /\ PipelineInit
  /\ config = getSearchConfig("quick", NoIntent)
  /\ rerankUnused
  /\ fusionUnused
  /\ intentUnused
  /\ planUnused
  /\ ovArrays = <<>>
  /\ ovThis = 0
  /\ ovPos = <<>>
  /\ ovResult = <<>>
  /\ dvChunks = <<>>
  /\ dvPhase = "idle"
  /\ dvSelected = <<>>
  /\ rdParallel = TRUE
  /\ rdCalls = <<>>
  /\ rdPhase = "collected"
  /\ rdUrls = <<>>
  /\ rdMetadata = <<>>
  /\ scClosed = FALSE
  /\ scController = TRUE
  /\ scStream = "readable"
  /\ scQueue = <<>>
  /\ scCalls = 0
  /\ scThrew = FALSE
  /\ ccMode \in Modes
  /\ ccField = [builtBy |-> 0, config |-> getSearchConfig(ccMode, NoIntent), stream |-> 0]
  /\ ccCalls = [c \in 1..MaxCalls |->
                  [phase |-> "idle", intent |-> NoIntent, ranOn |-> ccField]]

ConcurrentNext ==
  \E c \in 1..MaxCalls :
    \/ concurrent_planAndExecute(c)
    \/ concurrent_configure(c)
    \/ concurrent_return(c)

SpecConcurrent == ConcurrentInit /\ [][ConcurrentNext]_vars

\* ------------------------------- a SearchStreamController used directly
\* streamData(type, data): nothing once closed or without a controller;
\* otherwise controller.enqueue, which throws on a stream that is no longer
\* readable and is caught here.
sc_enqueue(type) ==
  IF scClosed \/ ~scController \/ scStream # "readable" THEN scQueue
  ELSE Append(scQueue, type)

\* A streamData call of the pipeline (every type but the two that complete
\* and error enqueue).
SearchStreamController_streamData ==
  /\ scCalls < MaxStreamCalls
  /\ scCalls' = scCalls + 1
  /\ \E type \in {"pipeline_progress", "stage_complete"} : scQueue' = sc_enqueue(type)
  /\ UNCHANGED <<scClosed, scController, scStream, scThrew, outsideStream>>

\* A complete that enqueues search_complete and leaves the stream open.
completeWithoutClosing ==
  /\ scCalls < MaxStreamCalls
  /\ scCalls' = scCalls + 1
  /\ scQueue' = sc_enqueue("search_complete")
  /\ UNCHANGED <<scClosed, scController, scStream, scThrew, outsideStream>>

\* complete(executionTime, mode): streamData('search_complete'), then
\* controller.close() (which throws on a stream that is not readable) and
\* closed = true, unless closed or without a controller.
SearchStreamController_complete ==
  /\ scCalls < MaxStreamCalls
  /\ scCalls' = scCalls + 1
  /\ scQueue' = sc_enqueue("search_complete")
  /\ IF scController /\ ~scClosed
     THEN /\ scThrew' = (scThrew \/ scStream # "readable")
          /\ scStream' = IF scStream = "readable" THEN "closed" ELSE scStream
          /\ scClosed' = (scStream = "readable")
     ELSE UNCHANGED <<scThrew, scStream, scClosed>>
  /\ UNCHANGED <<scController, outsideStream>>

\* error(error, stage): streamData('search_error'), then controller.error(),
\* which does nothing on a stream that is not readable, and closed = true.
SearchStreamController_error ==
  /\ scCalls < MaxStreamCalls
  /\ scCalls' = scCalls + 1
  /\ scQueue' = sc_enqueue("search_error")
  /\ IF scController /\ ~scClosed
     THEN /\ scStream' = IF scStream = "readable" THEN "errored" ELSE scStream
          /\ scClosed' = TRUE
     ELSE UNCHANGED <<scStream, scClosed>>
  /\ UNCHANGED <<scController, scThrew, outsideStream>>

\* close()
SearchStreamController_close ==
  /\ scCalls < MaxStreamCalls
  /\ scCalls' = scCalls + 1
  /\ IF scController /\ ~scClosed
     THEN /\ scThrew' = (scThrew \/ scStream # "readable")
          /\ scStream' = IF scStream = "readable" THEN "closed" ELSE scStream
          /\ scClosed' = (scStream = "readable")
     ELSE UNCHANGED <<scThrew, scStream, scClosed>>
  /\ UNCHANGED <<scController, scQueue, outsideStream>>

\* The consumer cancels the stream: a readable stream is closed and runs the
\* cancel callback of the constructor; on any other stream nothing happens.
ReadableStream_cancel ==
  /\ scCalls < MaxStreamCalls
  /\ scCalls' = scCalls + 1
  /\ IF scStream = "readable"
     THEN /\ scStream' = "closed"
          /\ scClosed' = TRUE
          /\ scController' = FALSE
     ELSE UNCHANGED <<scStream, scClosed, scController>>
  /\ UNCHANGED <<scQueue, scThrew, outsideStream>>

StreamNext ==
  \/ SearchStreamController_streamData
  \/ SearchStreamController_complete
  \/ SearchStreamController_error
  \/ SearchStreamController_close
  \/ ReadableStream_cancel

\* ------------------------------------------------------------ the pipeline
Init ==
  /\ PipelineInit
  /\ rerankUnused
  /\ fusionUnused
  /\ intentUnused
  /\ planUnused
  /\ overlapUnused

Next ==
  \/ executeSearch
  \/ stageQ_run10 \/ stageQ_emit \/ stageQ_run30 \/ stageQ_detectIntent
  \/ stageQ_emitIntent \/ stageQ_run70 \/ stageQ_complete \/ stageQ_catch
  \/ stageS_run10 \/ stageS_emit \/ stageS_startDocuments \/ stageS_startImages
  \/ stageS_startVideos \/ stageS_run70 \/ stageS_join \/ stageS_publishImages
  \/ stageS_publishVideos \/ stageS_complete
  \/ \E i \in 1..MaxQueries + 1 : retrieveDocuments_searchSettles(i)
  \/ retrieveDocuments_fetchSettles \/ retrieveImages_settles
  \/ retrieveVideos_settles
  \/ stageR_run10 \/ stageR_emit \/ stageR_emptyComplete \/ stageR_emptyPublish
  \/ stageR_run50 \/ stageR_rerank \/ stageR_complete \/ stageR_publish
  \/ stageE_run10 \/ stageE_emit \/ stageE_run20 \/ fusion_checkCache
  \/ fusion_progress20 \/ fusion_progress40 \/ fusion_progress60
  \/ fusion_progress70 \/ fusion_progress80 \/ fusion_skipEnhancement
  \/ fusion_enhanceBatch \/ fusion_storeAndFinish \/ createContextChunks_catch
  \/ stageE_complete
  \/ stageD_run10 \/ stageD_emit \/ stageD_run30
  \/ generateUnifiedAnswerOptimized_run60 \/ generateUnifiedAnswerOptimized_emit
  \/ generateUnifiedAnswerOptimized_invoke \/ generateMediaOnlyResponse
  \/ stageD_run90 \/ stageD_emitResponse \/ stageD_complete
  \/ executeSearchInternal_return
  \/ executeSearchInternal_catch

Spec == Init /\ [][Next]_vars

\* The event loop runs every continuation that is ready.
SpecFair == Spec /\ WF_vars(Next)

\* new SearchStreamController(), whose start callback has stored the
\* controller, is the controller of Init.
SpecStream == Init /\ [][StreamNext]_vars

\* ================================================================ properties
stageStatus(st) == pipelineStages[st].status
stageStarted(st) == pipelineStages[st].startTime # NoTime
callbackNeverThrows == progressCallback # "throwing"
allSearchesFailed ==
  /\ searchCalls # <<>>
  /\ \A i \in 1..Len(searchCalls) : searchCalls[i].state = "failed"

\* C1: the stages run strictly one after the other in the order Q, S, R, E, D:
\* at most one stage is running in any reachable state, a stage has left
\* pending only if the stage before it has ended (completed or error), and the
\* recorded start timestamps are non-decreasing along Q, S, R, E, D.
C1_StagesSequential ==
  /\ Cardinality(runningStages) <= 1
  /\ \A i \in 2..5 :
       stageStatus(StageNames[i]) # "pending"
         => /\ stageStatus(StageNames[i - 1]) \in {"completed", "error"}
            /\ stageStarted(StageNames[i]) /\ stageStarted(StageNames[i - 1])
            /\ pipelineStages[StageNames[i - 1]].startTime
                 <= pipelineStages[StageNames[i]].startTime

C1_Witness ==
  /\ stageStatus("D") = "completed"
  /\ pipelineStages["Q"].startTime < pipelineStages["S"].startTime
  /\ pipelineStages["S"].startTime = pipelineStages["D"].startTime

\* C2: executeSearch never rejects: whatever is thrown while the stages run,
\* by a collaborator or by the caller's progress callback, the call returns, and
\* a result with success = false has a message starting with 'Error: ', no
\* sources, images or videos and the fallback searchIntent.
C2_NeverThrows ==
  /\ pc # "rejected"
  /\ pc = "done" => result.returned
  /\ (result.returned /\ ~result.success)
       => /\ result.message = "Error: "
          /\ result.sources = <<>>
          /\ result.images = 0
          /\ result.videos = 0
          /\ result.searchIntent.present

C5_GatherAllJoin ==
  (\/ stageStatus("S") = "completed"
   \/ stageStatus("R") # "pending"
   \/ pc = "done")
    => branchesInFlight = {}

\* C6: when the search backend throws for every query (and the callback does
\* not throw), Stage S ends completed with no documents, stages R, E and D end
\* completed, and executeSearch returns success = true with no sources and the
\* media-only or the apologetic message.
C6_AllSearchesFail ==
  /\ (allSearchesFailed /\ docsBranch = "resolved") => documents = <<>>
  /\ (pc = "done" /\ callbackNeverThrows /\ allSearchesFailed)
       => /\ \A st \in {"S", "R", "E", "D"} : stageStatus(st) = "completed"
          /\ documents = <<>>
          /\ result.success
          /\ result.sources = <<>>
          /\ result.message \in {"mediaOnly", "noContent"}
          /\ llmCalls = 0

C6_Witness ==
  /\ pc = "done"
  /\ allSearchesFailed
  /\ Len(searchCalls) = MaxQueries
  /\ result.success
  /\ result.message = "mediaOnly"

\* C7: when Stage R gets no documents it ends completed with an empty ranked
\* list and without an embeddings call, and an empty sources event has gone to
\* the callback and a sources_ready event to the open stream; so whenever the
\* pipeline is past Stage R an open stream holds a sources_ready event.
C7_EmptyRanking ==
  /\ (stageStatus("E") # "pending" /\ documents = <<>>)
       => /\ rankedDocuments = <<>>
          /\ stageStatus("R") = "completed"
          /\ embedCalls = 0
          /\ progressCallback # "none" => "sources_empty" \in progressEvents
  /\ (stageStatus("E") # "pending" /\ streamController = "open")
       => "sources_ready" \in streamEvents

C7_Witness ==
  /\ stageStatus("E") = "running"
  /\ documents = <<>>
  /\ streamController = "open"
  /\ progressCallback = "quiet"
  /\ "sources_empty" \in progressEvents
  /\ "sources_ready" \in streamEvents

\* C8: while a stage is running its progress never decreases from one update
\* to the next, Stage E with the fusion engine's remapped reports included.
C8_ProgressMonotone ==
  [][\A st \in Stages :
       (stageStatus(st) = "running" /\ pipelineStages'[st].status = "running")
         => pipelineStages'[st].progress >= pipelineStages[st].progress]_vars

\* C9: rerankDocuments returns documents of its input only, each input
\* position at most once, in non-increasing order of relevanceScore; for no
\* documents it returns [] without an embeddings call.
C9_RerankSubsetSorted ==
  rrPhase = "returned"
    => /\ \A r \in 1..Len(rrOut) :
            /\ rrOut[r].originalRank \in 1..Len(rrDocs)
            /\ rrOut[r].doc = rrDocs[rrOut[r].originalRank]
       /\ \A r1, r2 \in 1..Len(rrOut) :
            /\ r1 # r2 => rrOut[r1].originalRank # rrOut[r2].originalRank
            /\ r1 < r2 => rrOut[r1].relevanceScore >= rrOut[r2].relevanceScore
       /\ rrDocs = <<>> => (rrOut = <<>> /\ rrEmbedCalls = 0)

C9_Witness ==
  /\ rrPhase = "returned"
  /\ Len(rrDocs) = MaxDocs
  /\ Len(rrOut) \in 2..(MaxDocs - 1)
  /\ rrOut[1].originalRank > rrOut[2].originalRank
  /\ rrOut[1].relevanceScore > rrOut[2].relevanceScore

\* C10: every relevanceScore rerankDocuments returns lies within [0, 1]
\* (0..10000 ten-thousandths), for every configuration of getSearchConfig and
\* every adaptive weight adjustment, the sub-scores being within [0, 1].
C10_ScoreWithinUnit ==
  rrPhase = "returned"
    => \A r \in 1..Len(rrOut) :
         /\ rrOut[r].relevanceScore >= 0
         /\ rrOut[r].relevanceScore <= 10000

\* Every candidate of the direct rerankDocuments call scores 0.
allFinalScoresZero ==
  /\ rrDocs # <<>>
  /\ LET penalties == calculateDiversityPenalties(rrDocs)
         weights == IF rrConfig.adaptiveScoring
                    THEN calculateAdaptiveWeights(rrConfig, rrQuery) ELSE rrConfig
     IN \A i \in 1..Len(rrDocs) : finalScore(rrDocs[i], penalties[i], weights) = 0

\* C11: when every candidate document's final score is 0, the dynamic
\* threshold filter admits none of them and rerankDocuments returns [].
C11_AllZeroReturnsEmpty ==
  (rrPhase = "returned" /\ allFinalScoresZero) => rrOut = <<>>

\* The position in the enhanced list of chunk i of batch b.
positionOf(b, i) == (b - 1) * cfConfig.batchSize + i
enhancementReturned == cfPhase = "returned" /\ cfBatches # <<>>
inFlight == {b \in 1..Len(cfBatches) : cfBatches[b].status = "inflight"}

\* C12: with skipEnhancement set, a createContextChunks call that follows a
\* returned call with the same query and documents on the same instance (and
\* so the same config) returns the same chunk list, without chunking again and
\* without a chat-model call, and is served from the cache (for no documents
\* both calls return [] before the cache is read).
C12_CachedIdempotent ==
  cfConfig.skipEnhancement =>
    \A i, j \in 1..Len(cfLog) :
      (i < j /\ cfLog[i].query = cfLog[j].query /\ cfLog[i].docs = cfLog[j].docs)
        => /\ cfLog[j].out = cfLog[i].out
           /\ cfLog[j].served # "computed"
           /\ cfLog[j].llmCalls = 0
           /\ cfLog[j].docs # <<>> => cfLog[j].served = "cache"

C12_Witness ==
  /\ cfConfig.skipEnhancement
  /\ Len(cfLog) = 2
  /\ cfLog[1].query = cfLog[2].query
  /\ cfLog[1].docs = cfLog[2].docs
  /\ Len(cfLog[1].out) > 1
  /\ cfLog[2].served = "cache"

\* C13: a failed chat-model call of an enhancement batch never makes
\* createContextChunks fail: once every batch has settled the call has
\* returned, the chunks of a failed batch come back with their original
\* content, enhanced = false and an enhancementError, the chunks of the other
\* batches are marked enhanced without an error, and no chunk is missing.
C13_FailedBatchKept ==
  /\ cfPhase # "threw"
  /\ (cfBatches # <<>> /\ \A b \in 1..Len(cfBatches) : cfBatches[b].status = "settled")
       => cfPhase = "returned"
  /\ enhancementReturned
       => /\ Len(cfOut) = Len(cfChunks)
          /\ \A b \in 1..Len(cfBatches) : \A i \in 1..Len(cfBatches[b].chunks) :
               LET chunk == cfOut[positionOf(b, i)]
               IN IF cfBatches[b].segments = ChainFails
                  THEN /\ chunk.content = cfBatches[b].chunks[i].content
                       /\ chunk.enhanced = "false"
                       /\ chunk.enhancementError
                  ELSE /\ chunk.enhanced = "true"
                       /\ ~chunk.enhancementError

C13_Witness ==
  /\ enhancementReturned
  /\ Len(cfBatches) > 1
  /\ cfBatches[1].segments = ChainFails
  /\ cfBatches[2].segments > 0
  /\ cfOut[1].enhancementError
  /\ cfOut[Len(cfOut)].content.kind = "segment"

\* C14: the enhanced list has one chunk per chunk handed to the enhancement,
\* with the same id and source at the same position, for every number of
\* segments the chat model returns and every order in which the batches of a
\* group settle; a chunk for whose position in its batch the model returned no
\* segment keeps its original content.
C14_EnhancementPreservesChunks ==
  enhancementReturned
    => /\ Len(cfOut) = Len(cfChunks)
       /\ \A p \in 1..Len(cfChunks) :
            /\ cfOut[p].id = cfChunks[p].id
            /\ cfOut[p].source = cfChunks[p].source
       /\ \A b \in 1..Len(cfBatches) : \A i \in 1..Len(cfBatches[b].chunks) :
            (cfBatches[b].segments # ChainFails /\ i > cfBatches[b].segments)
              => cfOut[positionOf(b, i)].content = cfChunks[positionOf(b, i)].content

C14_Witness ==
  /\ enhancementReturned
  /\ cfConfig.enableParallelProcessing
  /\ Len(cfBatches) = 2
  /\ cfBatches[2].settledAfter = 0
  /\ cfBatches[1].settledAfter = 1
  /\ Len(cfBatches[1].chunks) = 2
  /\ cfBatches[1].segments = 1
  /\ cfOut[1].content.kind = "segment"
  /\ cfOut[2].content.kind = "original"

\* C15: at most 2 batch chat-model calls are in flight when
\* enableParallelProcessing is set and at most 1 when it is not, and a batch
\* is issued only when every batch of the groups before its own has settled.
C15_BoundedConcurrency ==
  LET limit == IF cfConfig.enableParallelProcessing THEN 2 ELSE 1
  IN /\ Cardinality(inFlight) <= limit
     /\ \A b, m \in 1..Len(cfBatches) :
          (cfBatches[b].status # "waiting" /\ CeilDiv(m, limit) < CeilDiv(b, limit))
            => cfBatches[m].status = "settled"

C15_Witness ==
  /\ cfConfig.enableParallelProcessing
  /\ Len(cfBatches) = 3
  /\ cfBatches[1].status = "settled"
  /\ cfBatches[2].status = "settled"
  /\ cfBatches[2].settledAfter = 0
  /\ inFlight = {3}

\* The chat-model call of Stage D was made and failed.
llmFailed == llmCalls = 1 /\ fallbackContext # "unread"

\* C16: a Stage D that has completed invoked the chat model exactly once if
\* there was at least one context chunk and not at all if there was none, and
\* with no context chunk its message is the one generateMediaOnlyResponse
\* builds from the images and videos.
C16_LlmOnceIffContext ==
  stageStatus("D") = "completed"
    => /\ llmCalls = (IF contextChunks > 0 THEN 1 ELSE 0)
       /\ contextChunks = 0 => message = mediaOnlyMessage(images, videos)

\* C17: when the chat-model call of Stage D fails, the message is the excerpt
\* of the first selected chunks if that excerpt is over 100 characters and the
\* apology otherwise, Stage D does not end in error, and executeSearch returns
\* success = true with that message and Stage D completed.
C17_LlmFailureFallsBack ==
  (callbackNeverThrows /\ llmFailed)
    => /\ message = (IF fallbackContext = "long" THEN "excerpt" ELSE "apology")
       /\ pc \notin {"catch", "rejected"}
       /\ stageStatus("D") # "error"
       /\ pc = "done"
            => /\ result.returned
               /\ result.success
               /\ result.message = message
               /\ stageStatus("D") = "completed"

C17_Witness ==
  /\ pc = "done"
  /\ progressCallback = "quiet"
  /\ llmFailed
  /\ fallbackContext = "long"
  /\ result.success
  /\ result.message = "excerpt"
  /\ stageStatus("D") = "completed"

\* The chat model's answer is one getLLMIntent rejects: a failed call, text
\* without JSON, unparseable JSON, or an object without strategy, complexity,
\* temporal or contentPreferences.
llmAnswerUnusable ==
  \/ idResponse.kind \in {"throws", "noJson", "badJson"}
  \/ idResponse.json.strategy = "absent"
  \/ idResponse.json.complexity = "absent"
  \/ idResponse.json.temporal = "absent"
  \/ ~idResponse.json.contentPreferences.present

\* C18: detectIntent on an empty or whitespace-only query returns the
\* heuristic intent without invoking the chat model, and on any other query it
\* invokes the chat model at most once.
C18_BlankSkipsModel ==
  /\ idInvocations <= 1
  /\ idQuery.blank
       => /\ idInvocations = 0
          /\ idPhase \in {"idle", "returned"}
          /\ idPhase = "returned"
               => (idOut.reasoning = "heuristic" /\ idOut = getQuickIntent(idQuery))

C18_Witness ==
  /\ idQuery.blank
  /\ idQuery.words = 4
  /\ idLlm
  /\ idPhase = "returned"
  /\ idInvocations = 0
  /\ idOut.complexity = "medium"

\* C19: detectIntent never rejects, and when the chat model throws, answers
\* without JSON or with unparseable JSON, or leaves out strategy, complexity,
\* temporal or contentPreferences, it resolves to getQuickIntent of the query.
C19_FailuresFallBack ==
  /\ idPhase # "threw"
  /\ (idPhase = "returned" /\ idInvocations = 1 /\ llmAnswerUnusable)
       => idOut = getQuickIntent(idQuery)

C19_Witness ==
  /\ idPhase = "returned"
  /\ idInvocations = 1
  /\ idResponse.kind = "json"
  /\ idResponse.json.strategy = "banana"
  /\ idResponse.json.temporal = "absent"
  /\ idOut.strategy = "research"
  /\ idOut.reasoning = "heuristic"

\* C20: every intent detectIntent returns has recommendations.searchQueries
\* within [1, 6], relevanceThreshold within [0.2, 0.8] and timeoutMultiplier
\* within [0.5, 2.0], for every number in the chat model's JSON and on the
\* heuristic path.
C20_RecommendationsClamped ==
  idPhase = "returned"
    => /\ idOut.recommendations.searchQueries >= 1
       /\ idOut.recommendations.searchQueries <= 6
       /\ idOut.recommendations.relevanceThreshold >= 20
       /\ idOut.recommendations.relevanceThreshold <= 80
       /\ idOut.recommendations.timeoutMultiplier >= 50
       /\ idOut.recommendations.timeoutMultiplier <= 200

C20_Witness ==
  /\ idPhase = "returned"
  /\ idOut.reasoning = "llm"
  /\ idResponse.json.recommendations.searchQueries = 7
  /\ idResponse.json.recommendations.relevanceThreshold = 10
  /\ idResponse.json.recommendations.timeoutMultiplier = 300
  /\ idOut.recommendations.searchQueries = 6
  /\ idOut.recommendations.relevanceThreshold = 20
  /\ idOut.recommendations.timeoutMultiplier = 200

\* C21: every intent detectIntent returns has a strategy, a complexity, a
\* temporal class and a mediaImportance among their enumerated values and
\* every confidence within [0, 1], for every JSON object of the chat model.
C21_IntentAlwaysValid ==
  idPhase = "returned"
    => /\ idOut.strategy \in {"quickAnswer", "research", "comparison", "tutorial",
                              "news", "reference", "creative"}
       /\ idOut.complexity \in {"simple", "medium", "complex"}
       /\ idOut.temporal \in {"current", "historical", "timeless", "trending"}
       /\ idOut.contentPreferences.mediaImportance \in {"low", "medium", "high"}
       /\ \A k \in DOMAIN idOut.confidence :
            idOut.confidence[k] >= 0 /\ idOut.confidence[k] <= 100

\* C22: for every intent detectIntent hands to Stage Q, of a known or an
\* unknown strategy, the generated query list has at least one and at most
\* recommendations.searchQueries members and contains the original query.
C22_QueriesWithinBudget ==
  [][stageQ_QueryUnderstanding
       => /\ Len(idQueries') >= 1
          /\ Len(idQueries') <= idOut.recommendations.searchQueries
          /\ 0 \in Range(idQueries')]_vars

C22_Witness ==
  /\ idPhase = "returned"
  /\ idOut.reasoning = "llm"
  /\ idOut.strategy = "tutorial"
  /\ idResponse.json.recommendations.searchQueries = 4
  /\ idQueries = <<0, 1, 2, 3>>

C22_WitnessUnknownStrategy ==
  /\ idPhase = "returned"
  /\ idOut.reasoning = "llm"
  /\ idOut.strategy = "banana"
  /\ idOut.recommendations.searchQueries = 6
  /\ idQueries = <<0>>

\* C23: the configuration resolved for mode quick has
\* fusionConfig.skipEnhancement = true and the one for mode ultra has it false,
\* and ultra's maxChunkSize is strictly larger than quick's when both are
\* resolved without an intent or from intents of the same search depth.
C23_QuickSkipsUltraLarger ==
  /\ paConfig["quick"].fusionConfig.skipEnhancement
  /\ ~paConfig["ultra"].fusionConfig.skipEnhancement
  /\ paIntent["quick"].searchDepth = paIntent["ultra"].searchDepth
       => paConfig["ultra"].fusionConfig.maxChunkSize
            > paConfig["quick"].fusionConfig.maxChunkSize

C23_Witness ==
  /\ paIntent["quick"].present
  /\ paIntent["ultra"].present
  /\ paIntent["quick"].searchDepth = "deep"
  /\ paIntent["ultra"].searchDepth = "deep"
  /\ paConfig["quick"].fusionConfig.maxChunkSize = 840
  /\ paConfig["ultra"].fusionConfig.maxChunkSize = 1400

\* C24: the heuristic classifier maps 'What is quantum computing' (four
\* words, one quickAnswer keyword, no other keyword) to strategy quickAnswer,
\* complexity simple, needsImages and needsVideos false and mediaImportance
\* low.
C24_QuantumComputingIsSimple ==
  (/\ idPhase = "returned"
   /\ ~idQuery.blank
   /\ idQuery.words = 4
   /\ idQuery.hits["quickAnswer"] = 1
   /\ idOut.reasoning = "heuristic")
    => /\ idOut.strategy = "quickAnswer"
       /\ idOut.complexity = "simple"
       /\ ~idOut.contentPreferences.needsImages
       /\ ~idOut.contentPreferences.needsVideos
       /\ idOut.contentPreferences.mediaImportance = "low"

\* C25: when three documents with tied semantic scores are reranked for a
\* one-word query and exactly one of them has the query text in its title, that
\* document is first in the output.
C25_TitleMatchRanksFirst ==
  (/\ rrPhase = "returned"
   /\ rrQuery.words = 1
   /\ Len(rrDocs) = 3
   /\ \A i \in 1..3 : rrDocs[i].semantic = rrDocs[1].semantic
   /\ Cardinality({i \in 1..3 : rrDocs[i].titleMatches > 0}) = 1)
    => /\ rrOut # <<>>
       /\ rrOut[1].doc.titleMatches > 0

\* C26: per planAndExecute call the SearchIntent is created once: the intent
\* the configuration was resolved from is the intent Stage Q returns to query
\* generation and to Stages S and D, and is the searchIntent of the result.
C26_IntentCreatedOnce ==
  paPhase = "returned"
    => /\ paIntent[paMode] = paStageQ
       /\ paResult.searchIntent = paStageQ
       /\ paDetections = 1

\* C27: when two executeSearch calls overlap on one SearchOrchestrator, the
\* stage transitions of a call update only the PipelineStage array that call
\* allocated, and the pipelineStages of its SearchResult is that array.
C27_StagesNotShared ==
  /\ [](\A c \in DOMAIN ovResult : ovResult[c] \in {0, c})
  /\ [][\A c \in DOMAIN ovPos :
          overlap_updatePipelineStage(c)
            => \A a \in DOMAIN ovArrays : a # c => ovArrays'[a] = ovArrays[a]]_vars

\* C28: in Stage S a branch that has settled with results has its
\* images_ready, videos_ready or sources_ready event on the stream while other
\* branches of the stage are still in flight.
C28_PublishedAsBranchSettles ==
  (/\ pc = "S_join"
   /\ streamController = "open"
   /\ branchesInFlight # {})
    => /\ (imagesBranch = "resolved" /\ images > 0) => "images_ready" \in streamEvents
       /\ (videosBranch = "resolved" /\ videos > 0) => "videos_ready" \in streamEvents
       /\ (docsBranch = "resolved" /\ Len(documents) > 0)
            => "sources_ready" \in streamEvents

\* C29: the chunk list createOverlappingChunksOptimized produces for the
\* documents of a createContextChunks call, before deduplication, never holds
\* more than maxChunks * 2 chunks.
C29_ChunkingHardStop ==
  cfCalls > 0
    => Len(createOverlappingChunksOptimized(
             SubSeq(cfDocs, 1, Min(Len(cfDocs), cfConfig.maxChunks * 3)), <<>>, cfConfig))
         <= cfConfig.maxChunks * 2

\* C30: Stage D's context selection takes the chunks in descending relevance
\* order while they fit 8000 characters; the first chunk that would overflow is
\* included, cut and ending in '...', exactly when at least 200 characters of
\* the budget remain; no chunk after it is selected; the selected contents
\* never total more than 8000 characters.
C30_ContextWithinBudget ==
  dvPhase = "selected"
    => LET sorted == sortedChunksOf(dvChunks)
           fits(k) == SumSeq([i \in 1..k |-> sorted[i].length]) <= 8000
           whole == CHOOSE k \in 0..Len(sorted) :
                      fits(k) /\ (k < Len(sorted) => ~fits(k + 1))
           remaining == 8000 - SumSeq([i \in 1..whole |-> sorted[i].length])
           cut == whole < Len(sorted) /\ remaining >= 200
       IN /\ \A r1, r2 \in 1..Len(sorted) :
               r1 < r2 => sorted[r1].relevanceScore >= sorted[r2].relevanceScore
          /\ Len(dvSelected) = whole + (IF cut THEN 1 ELSE 0)
          /\ \A i \in 1..whole : dvSelected[i] = sorted[i]
          /\ cut => /\ dvSelected[whole + 1].ellipsis
                    /\ dvSelected[whole + 1].relevanceScore = sorted[whole + 1].relevanceScore
          /\ SumSeq([i \in 1..Len(dvSelected) |-> dvSelected[i].length]) <= 8000

\* C31: the urls handed to the document retriever hold each url once, in the
\* order of the queries that returned them (and of the results within a
\* query), and the metadata stored for a url is that of the first result of
\* the lowest-indexed query that returned it, whatever the order in which the
\* concurrent search calls completed.
C31_DedupInQueryOrder ==
  rdPhase = "collected" /\ rdCalls # <<>>
    => LET returned(u, i) == \E q \in 1..Len(rdCalls[i].results) : rdCalls[i].results[q] = u
           firstQuery(u) == CHOOSE i \in 1..Len(rdCalls) :
                              returned(u, i) /\ \A j \in 1..i - 1 : ~returned(u, j)
           firstPosition(u) == CHOOSE q \in 1..Len(rdCalls[firstQuery(u)].results) :
                                 /\ rdCalls[firstQuery(u)].results[q] = u
                                 /\ \A r \in 1..q - 1 : rdCalls[firstQuery(u)].results[r] # u
           rank(u) == <<firstQuery(u), firstPosition(u)>>
       IN /\ \A k1, k2 \in 1..Len(rdUrls) : k1 # k2 => rdUrls[k1] # rdUrls[k2]
          /\ Range(rdUrls) = {u \in 1..MaxResults : \E i \in 1..Len(rdCalls) : returned(u, i)}
          /\ \A k1, k2 \in 1..Len(rdUrls) :
               k1 < k2 => \/ rank(rdUrls[k1])[1] < rank(rdUrls[k2])[1]
                          \/ /\ rank(rdUrls[k1])[1] = rank(rdUrls[k2])[1]
                             /\ rank(rdUrls[k1])[2] < rank(rdUrls[k2])[2]
          /\ DOMAIN rdMetadata = Range(rdUrls)
          /\ \A u \in Range(rdUrls) :
               rdMetadata[u] = [fromQuery |-> firstQuery(u), position |-> firstPosition(u)]

\* Both queries returned both urls in opposite orders, and the second query's
\* call completed before the first's.
C31_Witness ==
  /\ rdPhase = "collected"
  /\ rdParallel
  /\ Len(rdCalls) = 2
  /\ rdCalls[1].results = <<2, 1>>
  /\ rdCalls[2].results = <<1, 2>>
  /\ rdCalls[2].settledAfter < rdCalls[1].settledAfter
  /\ rdUrls = <<2, 1>>
  /\ rdMetadata[1] = [fromQuery |-> 1, position |-> 2]

\* C32: when the search backend returned at least one url, document retrieval
\* does not return an empty list: a failed full-content fetch (the retriever
\* throws, or fetching fails for every url) falls back to snippet documents
\* and then to minimal title-only documents.
C32_EmptyOnlyWithoutUrls ==
  [][docsBranch = "fetching" /\ docsBranch' = "resolved" => documents' # <<>>]_vars

\* C33: a chunk array stored in the chunk cache is not modified after it is
\* written: whatever createContextChunks calls and Stage D runs (with their
\* in-place relevance sort of the returned array) follow, each cached entry
\* holds the chunks, in the order and with the content, it was written with.
C33_CachedEntriesUntouched ==
  \A e \in cfCache :
    \E i \in 1..Len(cfLog) :
      /\ cfLog[i].served = "computed"
      /\ fusionCacheKey(cfLog[i].query, cfLog[i].docs) = e[1]
      /\ e[2] = cfLog[i].out

\* Stage D has sorted an array that a second call was served from the cache,
\* holding chunks of documents of different relevance.
C33_Witness ==
  /\ cfConsumed
  /\ Len(cfLog) = 2
  /\ cfLog[2].served = "cache"
  /\ \E i, j \in 1..Len(cfOut) : cfOut[i].relevanceScore # cfOut[j].relevanceScore
  /\ \E e \in cfCache : e[2] = cfOut

\* C34: once complete(), error(), close() or a cancel by the consumer has
\* happened on a SearchStreamController, streamData enqueues nothing more and
\* later complete(), error() and close() calls change nothing and do not
\* throw; so at most one search_complete event is enqueued and no event
\* follows it.
C34_TerminatedStreamStaysSilent ==
  /\ [](/\ ~scThrew
        /\ \A i \in 1..Len(scQueue) : scQueue[i] = "search_complete" => i = Len(scQueue))
  /\ [][scClosed => UNCHANGED <<scClosed, scController, scStream, scQueue>>]_vars

\* complete() enqueued search_complete after other events, and three more
\* calls were made on the controller since.
C34_Witness ==
  /\ scClosed
  /\ scStream = "closed"
  /\ Len(scQueue) = 2
  /\ scQueue[2] = "search_complete"
  /\ scCalls = 5

\* C35: the stream of an execution started with a SearchStreamController is
\* eventually terminated: closed after search_complete on success, ended
\* after search_error on a pipeline-fatal error.
C35_StreamEventuallyEnds ==
  (runs > 0 /\ streamController = "open") ~> (streamController = "closed")

\* C36: a stage_complete stream event that names stage X is enqueued only
\* when X transitions to completed (so a successful execution produces one
\* per stage, in pipeline order): while the stream holds a stage_complete
\* event some stage has completed.
C36_StageCompleteOnlyOnCompletion ==
  "stage_complete" \in streamEvents
    => \E st \in Stages : stageStatus(st) = "completed"

\* C37: the chunk cache is a pure memoization layer: with skipEnhancement set,
\* every createContextChunks call on one instance returns what a computation
\* without the cache returns on the call's own documents, also when an
\* earlier call had the same query and document count but other documents.
C37_CacheIsPureMemoization ==
  cfConfig.skipEnhancement
    => \A i \in 1..Len(cfLog) :
         cfLog[i].out = finalChunksOf(cfLog[i].docs, cfConfig)

\* C38: planAndExecute calls that overlap on one search class are isolated:
\* whatever the interleaving of their awaits, each call runs executeSearch on
\* the SearchOrchestrator it built itself, from the config resolved from its
\* own intent and with its own stream controller.
C38_ConcurrentCallsIsolated ==
  \A c \in DOMAIN ccCalls :
    ccCalls[c].phase \in {"executing", "returned"}
      => /\ ccCalls[c].ranOn.builtBy = c
         /\ ccCalls[c].ranOn.config = getSearchConfig(ccMode, ccCalls[c].intent)
         /\ ccCalls[c].ranOn.stream = c

\* Two calls run at once on orchestrators of different configs: the second
\* call runs on the orchestrator it built although the first call, resumed
\* later, has overwritten the field with its own.
C38_Witness ==
  /\ ccCalls # <<>>
  /\ ccCalls[1].phase = "executing"
  /\ ccCalls[2].phase = "executing"
  /\ ccCalls[1].ranOn.config # ccCalls[2].ranOn.config
  /\ ccField.builtBy = 1
  /\ ccCalls[2].ranOn.builtBy = 2

\* C39: for every non-empty document list (final scores are never negative)
\* rerankDocuments returns a non-empty list, headed by a document of the
\* highest final score, which passes the dynamic threshold whatever
\* minRelevanceThreshold is configured.
C39_BestDocumentAlwaysKept ==
  (rrPhase = "returned" /\ rrDocs # <<>>)
    => /\ rrOut # <<>>
       /\ LET penalties == calculateDiversityPenalties(rrDocs)
              weights == IF rrConfig.adaptiveScoring
                         THEN calculateAdaptiveWeights(rrConfig, rrQuery)
                         ELSE rrConfig
          IN \A i \in 1..Len(rrDocs) :
               /\ finalScore(rrDocs[i], penalties[i], weights) >= 0
               /\ rrOut[1].relevanceScore
                    >= finalScore(rrDocs[i], penalties[i], weights)

\* A call that dropped a document and kept a best one whose score is above 0
\* and below the configured minRelevanceThreshold.
C39_Witness ==
  /\ rrPhase = "returned"
  /\ rrOut # <<>>
  /\ Len(rrOut) < Len(rrDocs)
  /\ rrOut[1].relevanceScore > 0
  /\ rrOut[1].relevanceScore < rrConfig.minRelevanceThreshold * 100

\* C40: the executionTime of a SearchResult is the time elapsed between the
\* start and the end of the execution, for successful and for error-shaped
\* results alike.
C40_ExecutionTimeIsElapsed ==
  (pc = "done" /\ result.returned) => result.executionTime = now - startTime

====
